---- MODULE Spec2Model ----
(***************************************************************************)
(* Session / authentication layer of the Minimax client:                   *)
(*   - OAuth2Client          (src/src/auth/index.ts)                       *)
(*   - TokenRefreshManager   (src/src/auth/token-refresh.ts)               *)
(*   - SessionManager        (src/src/auth/session.ts)                     *)
(*   - MemoryTokenStorage    (src/unnamed/part_001)                        *)
(*                                                                         *)
(* The runtime is single-threaded and cooperative: an action below is the  *)
(* code that runs between two suspension points (await) of one async call. *)
(* A token-store operation takes effect when it is called, as in           *)
(* MemoryTokenStorage, and its awaiter resumes at any later step, as the   *)
(* TokenStorage interface (file, custom callbacks) allows.                 *)
(*                                                                         *)
(* An optional number (a field that may be undefined) is a set: {} is      *)
(* undefined, {n} is the number n.  An options object is a function whose  *)
(* DOMAIN holds exactly the keys the object has.                           *)
(***************************************************************************)
EXTENDS Integers, FiniteSets, Sequences, TLC

\* ---------------------------------------------------------------- bounds
\* concurrent callers of getValidToken() / getAuthToken()
NCallers == 2
\* cap on the network calls of one refresh chain (the retry loop can be unbounded)
MaxCalls == 4
\* how many times the clock advances
MaxTicks == 1

\* ------------------------------------------------------ program constants
DefaultRefreshBuffer == 60000
DefaultMaxRefreshAttempts == 3
DefaultRefreshRetryDelay == 1000
DefaultExpirationBuffer == 60000
MsPerSecond == 1000
DisabledMaxRefreshAttempts == 0
NoTokenStatusCode == 401
SessionErrorStatusCode == 401

\* ------------------------------------------------------ environment values
\* the clock advances in steps of one minute, starting at a non-zero instant
TickMs == DefaultExpirationBuffer
T0 == TickMs
\* expires_in (seconds) of every token the auth endpoint issues: two minutes
ServerExpiresIn == 2 * (TickMs \div MsPerSecond)

Callers == 1..NCallers
RefreshIds == 1..NCallers
Null == [isNull |-> TRUE]
Undefined == {}
Num(n) == {n}
Val(o) == CHOOSE n \in o : TRUE

VARIABLES
  cfg,                    \* how the coordinator was constructed
  options,                \* TokenRefreshManager.options
  store,                  \* TokenStorage content: a token or Null
  now,                    \* Date.now()
  refreshing,             \* TokenRefreshManager.refreshing
  refreshPromise,         \* TokenRefreshManager.refreshPromise: 0 (null) or a promise id
  promises,               \* the refresh promises created so far
  chains,                 \* the attemptRefresh chain behind each refresh promise
  callers,                \* the getValidToken() calls
  currentOrganizationId,  \* SessionManager.currentOrganizationId: 0 is null
  login,                  \* the SessionManager.login() call
  logout,                 \* the SessionManager.logout() call
  netCalls,               \* refresh-grant network calls issued so far
  issued,                 \* tokens issued by the auth endpoint so far
  loggedOut,              \* "yes": a logout() has completed with the store empty and no
                          \* login() was active since that logout() was called;
                          \* "clearing": that logout() is running
  invoked,                \* a call of a synchronous function: its name and arguments
  returned,               \* what that call returned or threw
  tokenStorage,           \* a TokenStorage implementation and the medium behind it
  lastWrite,              \* the last saveToken() / clearToken() that resolved on it
  lastRead,               \* what getToken() resolved with since that write
  sessionState,           \* the getSessionState() / isAuthenticated() call
  request,                \* the HttpClient.request() call
  execute,                \* a RetryHandler.execute() call
  interceptors,           \* the InterceptorManager of an HttpClient
  client                  \* the exported MinimaxClient and its request() call

\* the session / authentication layer
authVars == <<cfg, options, store, now, refreshing, refreshPromise, promises, chains,
              callers, currentOrganizationId, login, logout, netCalls, issued, loggedOut>>

\* everything the actions of the session / authentication layer leave alone
pureVars == <<invoked, returned>>
storageVars == <<tokenStorage, lastWrite, lastRead>>
stateVars == <<sessionState>>
requestVars == <<request>>
retryVars == <<execute>>
chainVars == <<interceptors>>
httpVars == <<retryVars, chainVars>>
clientVars == <<client>>
otherVars == <<pureVars, storageVars, stateVars, requestVars, httpVars, clientVars>>

vars == <<authVars, otherVars>>

\* ------------------------------------------------------------ option objects
\* { ...a, ...b }: every own key of b wins, also one whose value is undefined
Spread(a, b) ==
  [k \in DOMAIN a \cup DOMAIN b |-> IF k \in DOMAIN b THEN b[k] ELSE a[k]]

\* o.k, undefined when o has no key k
Get(o, k) == IF k \in DOMAIN o THEN o[k] ELSE Undefined

EmptyObject == [k \in {} |-> Undefined]

DEFAULT_TOKEN_REFRESH_OPTIONS ==
  [refreshBuffer      |-> Num(DefaultRefreshBuffer),
   maxRefreshAttempts |-> Num(DefaultMaxRefreshAttempts),
   refreshRetryDelay  |-> Num(DefaultRefreshRetryDelay)]

\* TokenRefreshManager.constructor
TokenRefreshManagerOptions(opts) == Spread(DEFAULT_TOKEN_REFRESH_OPTIONS, opts)

\* SessionManager.constructor: options.autoRefreshToken !== false
AutoRefresh(sessionOptions) == Get(sessionOptions, "autoRefreshToken") # {FALSE}

\* SessionManager.constructor: the options object handed to the TokenRefreshManager
SessionRefreshOptions(sessionOptions) ==
  IF AutoRefresh(sessionOptions)
  THEN [refreshBuffer      |-> Get(sessionOptions, "refreshBuffer"),
        maxRefreshAttempts |-> Get(sessionOptions, "maxRefreshAttempts"),
        refreshRetryDelay  |-> Get(sessionOptions, "refreshRetryDelay")]
  ELSE [maxRefreshAttempts |-> Num(DisabledMaxRefreshAttempts)]

\* SessionManager.constructor: options.organizationId || config.defaultOrgId || null
InitialOrganizationId(sessionOptions, defaultOrgId) ==
  LET o == Get(sessionOptions, "organizationId")
  IN  IF o # Undefined /\ Val(o) # 0 THEN Val(o) ELSE defaultOrgId

\* ------------------------------------------------------------------ tokens
Token(id, rt, expiresIn, obtainedAt) ==
  [access_token |-> id, refresh_token |-> rt,
   expires_in |-> expiresIn, obtained_at |-> obtainedAt]

\* response.data of a successful call to the auth endpoint, its n-th token
ResponseData(n) == Token(n, n, ServerExpiresIn, 0)

\* mutant: the token is passed on as the endpoint sent it
StampedToken_Unstamped(data) == data

\* index.ts:143-146 and 179-182: { ...response.data, obtained_at: Date.now() }
StampedToken(data) == [data EXCEPT !.obtained_at = now]

\* mutant: a token is still valid at the very instant the buffer is reached
IsTokenValid_EdgeValid(token, expirationBuffer) ==
  LET buffer == IF expirationBuffer = Undefined
                THEN DefaultExpirationBuffer ELSE Val(expirationBuffer)
  IN  IF token = Null THEN FALSE
      ELSE IF token.expires_in = 0 \/ token.obtained_at = 0 THEN FALSE
      ELSE now <= (token.obtained_at + token.expires_in * MsPerSecond) - buffer

\* OAuth2Client.isTokenValid(token, expirationBuffer = 60000)
IsTokenValid(token, expirationBuffer) ==
  LET buffer == IF expirationBuffer = Undefined
                THEN DefaultExpirationBuffer ELSE Val(expirationBuffer)
  IN  IF token = Null THEN FALSE
      ELSE IF token.expires_in = 0 \/ token.obtained_at = 0 THEN FALSE
      ELSE now < (token.obtained_at + token.expires_in * MsPerSecond) - buffer

\* ------------------------------------------------------------------ errors
Error(name, statusCode, originalError) ==
  [name |-> name, statusCode |-> statusCode, originalError |-> originalError]

\* transport outcomes of a POST to the auth endpoint
Outcomes == {"ok", "noresp", "r400", "r401", "r500", "other"}
Status(outcome) ==
  CASE outcome = "r400" -> 400
    [] outcome = "r401" -> 401
    [] outcome = "r403" -> 403
    [] outcome = "r404" -> 404
    [] outcome = "r429" -> 429
    [] outcome = "r500" -> 500
    [] outcome = "r503" -> 503

\* mutant: every client-error status counts as an authentication failure
HandleAuthError_AnyClientError(outcome, call) ==
  IF outcome = "other"
  THEN Error("AuthenticationError", Undefined, [raw |-> outcome, call |-> call])
  ELSE IF outcome = "noresp"
  THEN Error("NetworkError", Undefined, [raw |-> outcome, call |-> call])
  ELSE IF Status(outcome) < 500
  THEN Error("AuthenticationError", Num(Status(outcome)), [raw |-> outcome, call |-> call])
  ELSE Error("ServerError", Num(Status(outcome)), [raw |-> outcome, call |-> call])

\* OAuth2Client.handleAuthError; call identifies the failed request
HandleAuthError(outcome, call) ==
  IF outcome = "other"
  THEN Error("AuthenticationError", Undefined, [raw |-> outcome, call |-> call])
  ELSE IF outcome = "noresp"
  THEN Error("NetworkError", Undefined, [raw |-> outcome, call |-> call])
  ELSE IF Status(outcome) = 400 \/ Status(outcome) = 401
  THEN Error("AuthenticationError", Num(Status(outcome)), [raw |-> outcome, call |-> call])
  ELSE Error("ServerError", Num(Status(outcome)), [raw |-> outcome, call |-> call])

\* --------------------------------------------------------- the coordinator
Pending == [status |-> "pending", value |-> Null]
Fulfilled(token) == [status |-> "fulfilled", value |-> token]
Rejected(error) == [status |-> "rejected", value |-> error]

NoPromise == [status |-> "none", value |-> Null]

\* what a call that is not a refresh gave back: nothing yet, or a value
NotReturned == [status |-> "none"]
Returned(value) == [status |-> "returned", value |-> value]
NoChain ==
  [pc |-> "none", retries |-> FALSE, refreshToken |-> 0, attemptCount |-> 0,
   calls |-> 0, lastError |-> Null, token |-> Null]
IdleCaller ==
  [pc |-> "idle", token |-> Null, promise |-> 0, path |-> "none", result |-> Pending]

\* the id the next refresh promise gets
NextId == Cardinality({i \in RefreshIds : promises[i].status # "none"}) + 1

\* mutant: getValidToken calls isTokenValid(token) without its buffer
GetValidTokenBuffer_Unset == Undefined

\* token-refresh.ts:84: the buffer getValidToken hands to isTokenValid
GetValidTokenBuffer == options.refreshBuffer

\* mutant: any stored token is taken to carry a refresh token
HasRefreshToken_AnyToken(token) == token # Null

\* token-refresh.ts:89: token && token.refresh_token
HasRefreshToken(token) == token # Null /\ token.refresh_token # 0

\* mutant: refreshToken does not look at the in-flight flag
AlreadyRefreshing_Never == FALSE

\* token-refresh.ts:110: if (this.refreshing)
AlreadyRefreshing == refreshing

\* mutant: the cap compares with maxRefreshAttempts, one attempt too many
ReachedMaxAttempts_OffByOne(attemptCount) ==
  /\ options.maxRefreshAttempts # Undefined
  /\ attemptCount >= Val(options.maxRefreshAttempts)

\* token-refresh.ts:153: attemptCount >= this.options.maxRefreshAttempts - 1
\* (undefined - 1 is NaN, and no number is >= NaN)
ReachedMaxAttempts(attemptCount) ==
  /\ options.maxRefreshAttempts # Undefined
  /\ attemptCount >= Val(options.maxRefreshAttempts) - 1

\* mutant: every AuthenticationError is retried, a 401 too
ShouldRetryRefresh_Also401(error) ==
  \/ error.name = "NetworkError"
  \/ error.name = "AuthenticationError"

\* token-refresh.ts:158-161: the errors attemptRefresh retries
ShouldRetryRefresh(error) ==
  \/ error.name = "NetworkError"
  \/ error.name = "AuthenticationError" /\ error.statusCode # Num(401)

\* token-refresh.ts:94-97
NoTokenError == Error("AuthenticationError", Num(NoTokenStatusCode), Null)

\* mutant: a caller that joined a refresh reloads the stored token when the
\* refresh settles, instead of taking the shared promise's result
AwaitedOutcome_Reload(id) ==
  IF store = Null THEN Rejected(NoTokenError) ELSE Fulfilled(store)

\* what a caller awaiting refresh promise id resumes with
AwaitedOutcome(id) == promises[id]

\* OAuth2Client.refreshToken up to its network call (index.ts:166-176)
IssueRefreshCall(id, rt, attemptCount, retries) ==
  /\ chains' = [chains EXCEPT ![id] =
                  [pc |-> "post", retries |-> retries, refreshToken |-> rt,
                   attemptCount |-> attemptCount, calls |-> chains[id].calls + 1,
                   lastError |-> chains[id].lastError, token |-> Null]]
  /\ netCalls' = netCalls + 1

\* getValidToken() up to its first await (token-refresh.ts:74-81)
\* (callers are numbered in the order of their calls)
GetValidTokenCall(c) ==
  /\ callers[c].pc = "idle"
  /\ \A d \in Callers : d < c => callers[d].pc # "idle"
  /\ callers' = [callers EXCEPT ![c] =
        IF refreshPromise # 0
        THEN [IdleCaller EXCEPT !.pc = "awaitPromise", !.promise = refreshPromise,
                                !.path = "coalesced"]
        ELSE [IdleCaller EXCEPT !.pc = "getToken", !.token = store]]
  /\ UNCHANGED <<cfg, options, store, now, refreshing, refreshPromise, promises, chains,
                 currentOrganizationId, login, logout, netCalls, issued, loggedOut>>
  /\ UNCHANGED otherVars

\* refreshToken(rt) up to its await (token-refresh.ts:108-126)
RefreshTokenCall(c, rt) ==
  IF AlreadyRefreshing
  THEN IF refreshPromise = 0
       THEN /\ promises' = [promises EXCEPT ![NextId] = Pending]
            /\ IssueRefreshCall(NextId, rt, 0, FALSE)
            /\ refreshPromise' = NextId
            /\ callers' = [callers EXCEPT ![c].pc = "awaitPromise",
                                          ![c].promise = NextId, ![c].path = "joined"]
            /\ UNCHANGED refreshing
       ELSE /\ callers' = [callers EXCEPT ![c].pc = "awaitPromise",
                                          ![c].promise = refreshPromise,
                                          ![c].path = "joined"]
            /\ UNCHANGED <<refreshing, refreshPromise, promises, chains, netCalls>>
  ELSE /\ refreshing' = TRUE
       /\ promises' = [promises EXCEPT ![NextId] = Pending]
       /\ IssueRefreshCall(NextId, rt, 0, TRUE)
       /\ refreshPromise' = NextId
       /\ callers' = [callers EXCEPT ![c].pc = "awaitRefresh",
                                     ![c].promise = NextId, ![c].path = "refresh"]

\* getValidToken() after getToken() resolved (token-refresh.ts:81-98)
GetValidTokenResume(c) ==
  /\ callers[c].pc = "getToken"
  /\ LET token == callers[c].token
     IN  IF IsTokenValid(token, GetValidTokenBuffer)
         THEN /\ callers' = [callers EXCEPT ![c].pc = "done", ![c].path = "valid",
                                            ![c].result = Fulfilled(token)]
              /\ UNCHANGED <<refreshing, refreshPromise, promises, chains, netCalls>>
         ELSE IF HasRefreshToken(token)
         THEN RefreshTokenCall(c, token.refresh_token)
         ELSE /\ callers' = [callers EXCEPT ![c].pc = "done", ![c].path = "notoken",
                                            ![c].result = Rejected(NoTokenError)]
              /\ UNCHANGED <<refreshing, refreshPromise, promises, chains, netCalls>>
  /\ UNCHANGED <<cfg, options, store, now, currentOrganizationId, login, logout,
                 issued, loggedOut>>
  /\ UNCHANGED otherVars

\* the auth endpoint answers a refresh call: OAuth2Client.refreshToken from the
\* response to saveToken (index.ts:176-190), and on failure the catch block of
\* attemptRefresh (token-refresh.ts:151-173)
RefreshRespond(id, outcome) ==
  /\ chains[id].pc = "post"
  /\ IF outcome = "ok"
     THEN LET token == StampedToken(ResponseData(issued + 1))
          IN  /\ store' = token
              /\ issued' = issued + 1
              /\ chains' = [chains EXCEPT ![id].pc = "saveToken", ![id].token = token]
              /\ UNCHANGED promises
     ELSE LET error == HandleAuthError(outcome, netCalls)
          IN  /\ IF /\ chains[id].retries
                    /\ ~ReachedMaxAttempts(chains[id].attemptCount)
                    /\ ShouldRetryRefresh(error)
                 THEN /\ chains' = [chains EXCEPT ![id].pc = "retryDelay",
                                                  ![id].lastError = error]
                      /\ UNCHANGED promises
                 ELSE /\ chains' = [chains EXCEPT ![id].pc = "settled",
                                                  ![id].lastError = error]
                      /\ promises' = [promises EXCEPT ![id] = Rejected(error)]
              /\ UNCHANGED <<store, issued>>
  /\ UNCHANGED <<cfg, options, now, refreshing, refreshPromise, callers,
                 currentOrganizationId, login, logout, netCalls, loggedOut>>
  /\ UNCHANGED otherVars

\* saveToken resolved: OAuth2Client.refreshToken returns the token (index.ts:185-187)
RefreshSaved(id) ==
  /\ chains[id].pc = "saveToken"
  /\ chains' = [chains EXCEPT ![id].pc = "settled"]
  /\ promises' = [promises EXCEPT ![id] = Fulfilled(chains[id].token)]
  /\ UNCHANGED <<cfg, options, store, now, refreshing, refreshPromise, callers,
                 currentOrganizationId, login, logout, netCalls, issued, loggedOut>>
  /\ UNCHANGED otherVars

\* the retry delay elapsed: attemptRefresh(refreshToken, attemptCount + 1)
\* (token-refresh.ts:163-168)
RetryTimer(id) ==
  /\ chains[id].pc = "retryDelay"
  /\ chains[id].calls < MaxCalls
  /\ IssueRefreshCall(id, chains[id].refreshToken, chains[id].attemptCount + 1, TRUE)
  /\ UNCHANGED <<cfg, options, store, now, refreshing, refreshPromise, promises, callers,
                 currentOrganizationId, login, logout, issued, loggedOut>>
  /\ UNCHANGED otherVars

\* mutant: the finally block leaves the settled promise where it is
ResetRefreshPromise_Kept == refreshPromise

\* token-refresh.ts:131: this.refreshPromise = null
ResetRefreshPromise == 0

\* the caller that started the refresh resumes (token-refresh.ts:126-132)
LeaderResume(c) ==
  /\ callers[c].pc = "awaitRefresh"
  /\ promises[callers[c].promise].status \in {"fulfilled", "rejected"}
  /\ callers' = [callers EXCEPT ![c].pc = "done",
                                ![c].result = promises[callers[c].promise]]
  /\ refreshing' = FALSE
  /\ refreshPromise' = ResetRefreshPromise
  /\ UNCHANGED <<cfg, options, store, now, promises, chains,
                 currentOrganizationId, login, logout, netCalls, issued, loggedOut>>
  /\ UNCHANGED otherVars

\* a caller that was handed the pending refresh promise resumes
\* (token-refresh.ts:76-78 and 110-116)
FollowerResume(c) ==
  /\ callers[c].pc = "awaitPromise"
  /\ promises[callers[c].promise].status \in {"fulfilled", "rejected"}
  /\ callers' = [callers EXCEPT ![c].pc = "done",
                                ![c].result = AwaitedOutcome(callers[c].promise)]
  /\ UNCHANGED <<cfg, options, store, now, refreshing, refreshPromise, promises, chains,
                 currentOrganizationId, login, logout, netCalls, issued, loggedOut>>
  /\ UNCHANGED otherVars

\* Date.now() advances
Tick ==
  /\ now < T0 + MaxTicks * TickMs
  /\ now' = now + TickMs
  /\ UNCHANGED <<cfg, options, store, refreshing, refreshPromise, promises, chains,
                 callers, currentOrganizationId, login, logout, netCalls, issued,
                 loggedOut>>
  /\ UNCHANGED otherVars

\* ------------------------------------------------------ the session manager
OrgIds == {2}
LoginOutcomes == {"ok", "r401"}
\* inflight: the refresh chains that were running when login() was called
IdleLogin == [pc |-> "idle", token |-> Null, result |-> Pending, inflight |-> {}]

\* login() up to the network call of authenticate (session.ts:118-120,
\* index.ts:126-140)
LoginCall ==
  /\ cfg.kind = "session"
  /\ login.pc = "idle"
  /\ login' = [login EXCEPT
                  !.pc = "post",
                  !.inflight = {id \in RefreshIds : chains[id].pc \notin {"none", "settled"}}]
  /\ loggedOut' = "no"
  /\ UNCHANGED <<cfg, options, store, now, refreshing, refreshPromise, promises, chains,
                 callers, currentOrganizationId, logout, netCalls, issued>>
  /\ UNCHANGED otherVars

\* mutant: a failed password grant drops the stored token
LoginRespond_ClearsOnFailure(outcome) ==
  /\ login.pc = "post"
  /\ IF outcome = "ok"
     THEN LET token == StampedToken(ResponseData(issued + 1))
          IN  /\ store' = token
              /\ issued' = issued + 1
              /\ login' = [login EXCEPT !.pc = "saveToken", !.token = token]
     ELSE /\ login' = [login EXCEPT !.pc = "done",
                                    !.result = Rejected(HandleAuthError(outcome, 0))]
          /\ store' = Null
          /\ UNCHANGED issued
  /\ UNCHANGED <<cfg, options, now, refreshing, refreshPromise, promises, chains,
                 callers, currentOrganizationId, logout, netCalls, loggedOut>>
  /\ UNCHANGED otherVars

\* the auth endpoint answers the password grant: authenticate from the response
\* to saveToken, or its failure (index.ts:140-154)
LoginRespond(outcome) ==
  /\ login.pc = "post"
  /\ IF outcome = "ok"
     THEN LET token == StampedToken(ResponseData(issued + 1))
          IN  /\ store' = token
              /\ issued' = issued + 1
              /\ login' = [login EXCEPT !.pc = "saveToken", !.token = token]
     ELSE /\ login' = [login EXCEPT !.pc = "done",
                                    !.result = Rejected(HandleAuthError(outcome, 0))]
          /\ UNCHANGED <<store, issued>>
  /\ UNCHANGED <<cfg, options, now, refreshing, refreshPromise, promises, chains,
                 callers, currentOrganizationId, logout, netCalls, loggedOut>>
  /\ UNCHANGED otherVars

\* mutant: login() selects the default organization whatever is selected
LoginOrganizationId_Always == cfg.defaultOrgId

\* session.ts:123-125: the organization selected when login() has finished
LoginOrganizationId ==
  IF currentOrganizationId = 0 THEN cfg.defaultOrgId ELSE currentOrganizationId

\* saveToken resolved: authenticate returns and login() finishes
\* (index.ts:149-151, session.ts:122-127)
LoginResume ==
  /\ login.pc = "saveToken"
  /\ currentOrganizationId' = LoginOrganizationId
  /\ login' = [login EXCEPT !.pc = "done", !.result = Fulfilled(login.token)]
  /\ UNCHANGED <<cfg, options, store, now, refreshing, refreshPromise, promises, chains,
                 callers, logout, netCalls, issued, loggedOut>>
  /\ UNCHANGED otherVars

\* logout() up to its await: clearToken() (session.ts:135-136, index.ts:231-233)
LogoutCall ==
  /\ cfg.kind = "session"
  /\ logout = "idle"
  /\ store' = Null
  /\ logout' = "clearToken"
  /\ loggedOut' = IF login.pc \in {"idle", "done"} THEN "clearing" ELSE "no"
  /\ UNCHANGED <<cfg, options, now, refreshing, refreshPromise, promises, chains,
                 callers, currentOrganizationId, login, netCalls, issued>>
  /\ UNCHANGED otherVars

\* clearToken resolved: logout() finishes (session.ts:137)
LogoutResume ==
  /\ logout = "clearToken"
  /\ currentOrganizationId' = 0
  /\ logout' = "done"
  /\ loggedOut' = IF loggedOut = "clearing" /\ store = Null THEN "yes" ELSE "no"
  /\ UNCHANGED <<cfg, options, store, now, refreshing, refreshPromise, promises, chains,
                 callers, login, netCalls, issued>>
  /\ UNCHANGED otherVars

\* setOrganizationId(organizationId) (session.ts:202-204)
SetOrganizationId(organizationId) ==
  /\ cfg.kind = "session"
  /\ currentOrganizationId # organizationId
  /\ currentOrganizationId' = organizationId
  /\ UNCHANGED <<cfg, options, store, now, refreshing, refreshPromise, promises, chains,
                 callers, login, logout, netCalls, issued, loggedOut>>
  /\ UNCHANGED otherVars

\* mutant: the new AuthenticationError does not carry the error it replaces
GetAuthTokenOutcome_DropCause(r) ==
  IF r.status = "rejected" /\ r.value.name = "AuthenticationError"
  THEN Rejected(Error("AuthenticationError", Num(SessionErrorStatusCode), Null))
  ELSE r

\* getAuthToken(): what the caller of getValidToken() outcome r receives
\* (session.ts:172-186)
GetAuthTokenOutcome(r) ==
  IF r.status = "rejected" /\ r.value.name = "AuthenticationError"
  THEN Rejected(Error("AuthenticationError", Num(SessionErrorStatusCode), r.value))
  ELSE r

NoSessionStateCall == [pc |-> "idle", op |-> "none", token |-> Null, result |-> NotReturned]
SessionStateOps == {"getSessionState", "isAuthenticated"}

\* getSessionState() or isAuthenticated() up to its await: getToken()
\* (session.ts:145-146, 161-162)
GetSessionStateCall(op) ==
  /\ cfg.kind = "session"
  /\ sessionState.pc = "idle"
  /\ sessionState' = [sessionState EXCEPT !.pc = "getToken", !.op = op, !.token = store]
  /\ UNCHANGED <<authVars, clientVars, pureVars, storageVars, requestVars, httpVars>>

\* mutant: the session state is computed with the buffer the refresh uses
SessionStateBuffer_Configured == options.refreshBuffer

\* session.ts:147, 163: isTokenValid(token), no buffer given
SessionStateBuffer == Undefined

\* getToken() resolved: the state is built and returned (session.ts:147-153,
\* 163)
GetSessionStateResume ==
  /\ sessionState.pc = "getToken"
  /\ LET token == sessionState.token
         isAuthenticated == IsTokenValid(token, SessionStateBuffer)
     IN  sessionState' =
           [sessionState EXCEPT
              !.pc = "done",
              !.result =
                 IF sessionState.op = "getSessionState"
                 THEN Returned([isAuthenticated |-> isAuthenticated,
                                organizationId |-> currentOrganizationId,
                                token |-> token])
                 ELSE Returned(isAuthenticated)]
  /\ UNCHANGED <<authVars, clientVars, pureVars, storageVars, requestVars, httpVars>>

\* ------------------------------------------------------ the request pipeline
\* HttpClient.request in its default configuration: the RowVersion error
\* middleware in front of the default classifier, a DefaultRetryStrategy.
DefaultMaxRetries == 3

MinimaxErrorNames ==
  {"MinimaxError", "AuthenticationError", "ValidationError", "NotFoundError",
   "ConcurrencyError", "RateLimitError", "ServerError", "NetworkError"}
IsMinimaxError(error) == "name" \in DOMAIN error /\ error.name \in MinimaxErrorNames

\* a TypeError raised by the runtime (a property read on null, a call of
\* something that is not a function)
TypeError == Error("TypeError", Undefined, Null)

\* the text of a message, as far as the classifiers look at it: the words it
\* contains once lower-cased, and the version that follows "RowVersion:" in it
Msg(words, rowVersion) == [words |-> words, rowVersion |-> rowVersion]
Plain == Msg({}, Undefined)
Messages ==
  {Msg({w}, Undefined) : w \in {"auth", "not found", "concurrency", "rowversion"}}
  \cup {Plain, Msg({"concurrency", "rowversion"}, Num(7)), Msg({"rowversion"}, Num(8)),
        Msg({"auth", "rowversion"}, Num(7))}
\* message.toLowerCase().includes(word)
Includes(message, word) == word \in message.words
\* message.match(/RowVersion:\s*([^\s]+)/i) found a version
HasRowVersion(message) == message.rowVersion # Undefined

\* an error built by the request pipeline; the one of a 429 carries retryAfter,
\* a ConcurrencyError carries currentRowVersion
ApiError(name, message, statusCode, originalError) ==
  [name |-> name, message |-> message, statusCode |-> statusCode,
   originalError |-> originalError]
RateLimitError(message, retryAfter, statusCode, originalError) ==
  [name |-> "RateLimitError", message |-> message, retryAfter |-> retryAfter,
   statusCode |-> statusCode, originalError |-> originalError]
ConcurrencyError(message, currentRowVersion, statusCode, originalError) ==
  [name |-> "ConcurrencyError", message |-> message,
   currentRowVersion |-> currentRowVersion,
   statusCode |-> statusCode, originalError |-> originalError]

\* error.message and error.statusCode of any error; the messages of the session
\* layer and of the transport are plain text
Message(error) == IF "message" \in DOMAIN error THEN error.message ELSE Plain
StatusCode(error) == IF "statusCode" \in DOMAIN error THEN error.statusCode ELSE Undefined

\* response.data: null, or an object (a string has no fields and reads like
\* the empty object); its message is absent, a text, or not a string
NullBody == [isNullBody |-> TRUE]
NoMessage == [isNoMessage |-> TRUE]
NonString == [isNonString |-> TRUE]
ResponseBodies ==
  {NullBody} \cup {[message |-> m] : m \in Messages \cup {NoMessage, NonString}}
ResponseStatuses == {400, 401, 403, 404, 409, 418, 422, 429, 500, 503}
\* the retry-after header of a response, in seconds
RetryAfterSeconds == {5}
Response(status, data, retryAfter) ==
  [status |-> status, data |-> data, retryAfter |-> retryAfter]
Responses ==
  {Response(st, b, Undefined) : st \in ResponseStatuses, b \in ResponseBodies}
  \cup {Response(429, [message |-> Plain], Num(s)) : s \in RetryAfterSeconds}

\* what the transport call throws: an axios error with a response, an axios
\* error without one (connection failure, timeout), or another exception
NoResponse == [isNoResponse |-> TRUE]
AxiosError(response) ==
  [kind |-> "axios", response |-> response, message |-> Plain, request |-> TRUE]
OtherError(message) == [kind |-> "other", response |-> NoResponse, message |-> message]
TransportFailures ==
  {AxiosError(r) : r \in Responses}
  \cup {AxiosError(NoResponse)}
  \cup {OtherError(m) : m \in {Plain, Msg({"concurrency"}, Undefined),
                               Msg({"concurrency", "rowversion"}, Num(7))}}

\* createErrorFromResponse(errorResponse, statusCode, originalError)
\* (errors.ts:120-174); the result is the error it returns or the one it throws
CreateErrorFromResponse(errorResponse, statusCode, originalError) ==
  IF errorResponse = NullBody THEN TypeError
  ELSE IF statusCode \in {401, 403}
  THEN ApiError("AuthenticationError",
                IF errorResponse.message = NoMessage THEN Plain ELSE errorResponse.message,
                Num(statusCode), originalError)
  ELSE IF errorResponse.message = NonString THEN TypeError
  ELSE LET message == IF errorResponse.message = NoMessage
                      THEN Plain ELSE errorResponse.message
       IN  IF Includes(message, "auth")
           THEN ApiError("AuthenticationError", message, Num(statusCode), originalError)
           ELSE IF statusCode = 404 \/ Includes(message, "not found")
           THEN ApiError("NotFoundError", message, Num(statusCode), originalError)
           ELSE IF \/ statusCode = 409
                   \/ Includes(message, "concurrency")
                   \/ Includes(message, "rowversion")
           THEN ConcurrencyError(message, message.rowVersion, Num(statusCode),
                                 originalError)
           ELSE IF statusCode \in {422, 400}
           THEN ApiError("ValidationError", message, Num(statusCode), originalError)
           ELSE IF statusCode = 429
           THEN RateLimitError(message, originalError.response.retryAfter,
                               Num(statusCode), originalError)
           ELSE IF statusCode >= 500
           THEN ApiError("ServerError", message, Num(statusCode), originalError)
           ELSE ApiError("MinimaxError", message, Num(statusCode), originalError)

\* finalHandler, the default classifier (error-middleware.ts:63-85)
FinalHandler(error) ==
  IF IsMinimaxError(error) THEN error
  ELSE IF error.kind = "axios" /\ error.response # NoResponse
  THEN CreateErrorFromResponse(error.response.data, error.response.status, error)
  ELSE ApiError("MinimaxError", Message(error), Undefined, error)

\* RowVersionHandler.handleConcurrencyError (row-version.ts:78-100); the message
\* it writes names the concurrency conflict and the version it found
HandleConcurrencyError(error) ==
  IF /\ \/ StatusCode(error) = Num(409)
        \/ Includes(Message(error), "concurrency")
     /\ HasRowVersion(Message(error))
  THEN ConcurrencyError(Msg({"concurrency", "rowversion"}, Message(error).rowVersion),
                        Message(error).rowVersion, StatusCode(error), error)
  ELSE error

\* processError with the RowVersion middleware installed
\* (error-middleware.ts:48-54, 88-113, row-version.ts:107-120)
ProcessError(error) ==
  LET processedError == HandleConcurrencyError(error)
  IN  IF processedError # error THEN processedError ELSE FinalHandler(error)

\* new HttpClient(config, sessionManager, { retry }); delays are in
\* milliseconds, jitter is in percent, retryCondition is the name of a predicate
RetryStatusCodes == {408, 429, 500, 502, 503, 504}
DEFAULT_RETRY_CONFIG ==
  [maxRetries |-> Num(DefaultMaxRetries), retryDelay |-> Num(1000),
   maxRetryDelay |-> Num(30000), useExponentialBackoff |-> {TRUE},
   backoffFactor |-> Num(2), jitter |-> Num(10), retryCondition |-> Undefined]
RetryConfigChoices == {EmptyObject, [maxRetries |-> Num(1)]}
RetryConfig(given) == Spread(DEFAULT_RETRY_CONFIG, given)

\* mutant: one retry more than maxRetries
ShouldRetry_OneMore(config, error, retryCount) ==
  IF retryCount > Val(config.maxRetries) THEN FALSE
  ELSE IF config.retryCondition # Undefined
  THEN Val(config.retryCondition) = "always"
  ELSE IF "name" \in DOMAIN error
  THEN error.name \in {"NetworkError", "RateLimitError", "ServerError"}
  ELSE IF error.kind = "axios"
  THEN IF error.response # NoResponse
       THEN error.response.status \in RetryStatusCodes
       ELSE error.request
  ELSE FALSE

\* DefaultRetryStrategy.shouldRetry(error, retryCount) (retry.ts:121-161)
ShouldRetry(config, error, retryCount) ==
  IF retryCount >= Val(config.maxRetries) THEN FALSE
  ELSE IF config.retryCondition # Undefined
  THEN Val(config.retryCondition) = "always"
  ELSE IF "name" \in DOMAIN error
  THEN error.name \in {"NetworkError", "RateLimitError", "ServerError"}
  ELSE IF error.kind = "axios"
  THEN IF error.response # NoResponse
       THEN error.response.status \in RetryStatusCodes
       ELSE error.request
  ELSE FALSE

RECURSIVE Pow(_, _)
Pow(base, exponent) == IF exponent = 0 THEN 1 ELSE base * Pow(base, exponent - 1)
Min(a, b) == IF a < b THEN a ELSE b

\* DefaultRetryStrategy.getRetryDelay(retryCount, error) (retry.ts:170-192): the
\* delays it can return; Math.random() is at one end of [0, 1) or the other
GetRetryDelay(config, retryCount, error) ==
  IF /\ "name" \in DOMAIN error
     /\ error.name = "RateLimitError"
     /\ error.retryAfter \notin {Undefined, Num(0)}
  THEN {Val(error.retryAfter) * MsPerSecond}
  ELSE LET delay == IF Val(config.useExponentialBackoff)
                    THEN Val(config.retryDelay) * Pow(Val(config.backoffFactor), retryCount)
                    ELSE Val(config.retryDelay)
           jitterAmount == (delay * Val(config.jitter)) \div 100
           jittered == IF Val(config.jitter) > 0
                       THEN {delay - jitterAmount, delay + jitterAmount - 1}
                       ELSE {delay}
       IN  {Min(d, Val(config.maxRetryDelay)) : d \in jittered}

\* how getAuthToken() settles for a request
AuthTokenOutcomes ==
  {GetAuthTokenOutcome(r) :
     r \in {Fulfilled(Token(1, 1, ServerExpiresIn, T0)),
            Fulfilled(Token(2, 2, ServerExpiresIn, T0)), Rejected(NoTokenError),
            Rejected(HandleAuthError("noresp", 1)), Rejected(HandleAuthError("r500", 1))}}

\* the options of a request: authenticate, orgId (0: not given) and headers
RequestOrgIds == {0, 3}
RequestHeaders == {[Accept |-> "text/csv"]}
RequestOptions ==
  [authenticate : BOOLEAN, orgId : RequestOrgIds, headers : RequestHeaders]
DefaultRequestOptions == [authenticate |-> TRUE, orgId |-> 0, headers |-> EmptyObject]

\* what the transport answers a call with
Payloads == {"a", "b"}

\* calls: transport calls issued; authCalls: getAuthToken() calls made; auth:
\* what the getAuthToken() of this attempt settled with; headers: those of the
\* transport call in flight; raw, error: what the last attempt threw and what
\* it was made into; waits: the delays slept so far; unavailable: the
\* transport calls answered 503 so far
NoRequest ==
  [pc |-> "idle", config |-> RetryConfig(EmptyObject), options |-> DefaultRequestOptions,
   retryCount |-> 0, calls |-> 0, authCalls |-> 0, auth |-> Pending,
   headers |-> EmptyObject, waits |-> <<>>, unavailable |-> 0,
   raw |-> Null, error |-> Null, result |-> Pending]

\* `Bearer ${token.access_token}`
Bearer(token) == <<"Bearer", token.access_token>>

\* mutant: a retry goes straight to the transport call
MakeRequest_TokenOnce(r) ==
  IF r.options.authenticate /\ r.authCalls = 0
  THEN [r EXCEPT !.pc = "getAuthToken", !.authCalls = r.authCalls + 1,
                 !.raw = Null, !.error = Null]
  ELSE [r EXCEPT !.pc = "transport", !.calls = r.calls + 1,
                 !.headers = r.options.headers, !.raw = Null, !.error = Null]

\* makeRequest up to its first await: getAuthToken(), or the transport call when
\* the request is not authenticated (http-client.ts:142-169)
MakeRequest(r) ==
  IF r.options.authenticate
  THEN [r EXCEPT !.pc = "getAuthToken", !.authCalls = r.authCalls + 1,
                 !.raw = Null, !.error = Null]
  ELSE [r EXCEPT !.pc = "transport", !.calls = r.calls + 1,
                 !.headers = r.options.headers, !.raw = Null, !.error = Null]

\* request(method, endpoint, options): execute runs makeRequest
\* (http-client.ts:134-177, retry.ts:218-223)
RequestCall(requestOptions) ==
  /\ request.pc = "idle"
  /\ request' = MakeRequest([request EXCEPT !.options = requestOptions])
  /\ UNCHANGED <<authVars, clientVars, pureVars, storageVars, stateVars, httpVars>>

\* the transport answered 503
IsUnavailable(raw) ==
  /\ "kind" \in DOMAIN raw
  /\ raw.kind = "axios"
  /\ raw.response # NoResponse
  /\ raw.response.status = 503

\* mutant: every error is retried until the cap is reached
RequestFailed_RetryAll(raw, error) ==
  LET failed == [request EXCEPT !.raw = raw, !.error = error,
                                !.auth = Pending, !.headers = EmptyObject,
                                !.unavailable = IF IsUnavailable(raw)
                                                THEN request.unavailable + 1
                                                ELSE request.unavailable]
  IN  IF request.retryCount < Val(request.config.maxRetries)
      THEN \E delay \in GetRetryDelay(request.config, request.retryCount + 1, error) :
             request' = [failed EXCEPT !.pc = "retryDelay",
                                       !.retryCount = request.retryCount + 1,
                                       !.waits = Append(request.waits, delay)]
      ELSE request' = [failed EXCEPT !.pc = "done", !.result = Rejected(error)]

\* makeRequest threw error, made of raw: the catch block of execute
\* (retry.ts:224-238)
RequestFailed(raw, error) ==
  LET failed == [request EXCEPT !.raw = raw, !.error = error,
                                !.auth = Pending, !.headers = EmptyObject,
                                !.unavailable = IF IsUnavailable(raw)
                                                THEN request.unavailable + 1
                                                ELSE request.unavailable]
  IN  IF ShouldRetry(request.config, error, request.retryCount)
      THEN \E delay \in GetRetryDelay(request.config, request.retryCount + 1, error) :
             request' = [failed EXCEPT !.pc = "retryDelay",
                                       !.retryCount = request.retryCount + 1,
                                       !.waits = Append(request.waits, delay)]
      ELSE request' = [failed EXCEPT !.pc = "done", !.result = Rejected(error)]

\* the promise of getAuthToken() settles
AuthTokenSettled(outcome) ==
  /\ request.pc = "getAuthToken"
  /\ request.auth = Pending
  /\ request' = [request EXCEPT !.auth = outcome]
  /\ UNCHANGED <<authVars, clientVars, pureVars, storageVars, stateVars, httpVars>>

\* mutant: the organization of the session wins over the one given per call
OrganizationId_SessionFirst(orgId, sessionOrganizationId) ==
  IF sessionOrganizationId # 0 THEN sessionOrganizationId ELSE orgId

\* orgId || this.sessionManager.getOrganizationId() (http-client.ts:155); 0
\* stands for an absent (or empty) id
OrganizationId(orgId, sessionOrganizationId) ==
  IF orgId # 0 THEN orgId ELSE sessionOrganizationId

\* makeRequest resumes after getAuthToken(): the headers are completed and the
\* transport call is issued, or the rejection is processed and thrown
\* (http-client.ts:151-173)
RequestAuthenticated ==
  /\ request.pc = "getAuthToken"
  /\ request.auth # Pending
  /\ IF request.auth.status = "fulfilled"
     THEN LET organizationId == OrganizationId(request.options.orgId,
                                               currentOrganizationId)
              authorization == [h \in {"Authorization"} |-> Bearer(request.auth.value)]
              organization == IF organizationId # 0
                              THEN [h \in {"X-Organization-Id"} |-> organizationId]
                              ELSE EmptyObject
          IN  request' =
                [request EXCEPT !.pc = "transport", !.calls = request.calls + 1,
                                !.auth = Pending,
                                !.headers = Spread(Spread(request.options.headers,
                                                          authorization), organization)]
     ELSE RequestFailed(request.auth.value, ProcessError(request.auth.value))
  /\ UNCHANGED <<authVars, clientVars, pureVars, storageVars, stateVars, httpVars>>

\* the transport call returned a response (http-client.ts:169-170)
RequestSucceeded(payload) ==
  /\ request.pc = "transport"
  /\ request' = [request EXCEPT !.pc = "done", !.headers = EmptyObject,
                                !.result = Fulfilled(payload)]
  /\ UNCHANGED <<authVars, clientVars, pureVars, storageVars, stateVars, httpVars>>

\* the transport call threw (http-client.ts:171-173, retry.ts:224-238)
RequestTransportFailed(raw) ==
  /\ request.pc = "transport"
  /\ RequestFailed(raw, ProcessError(raw))
  /\ UNCHANGED <<authVars, clientVars, pureVars, storageVars, stateVars, httpVars>>

\* the retry delay elapsed: makeRequest runs again (retry.ts:237, 221-223)
RequestRetry ==
  /\ request.pc = "retryDelay"
  /\ request' = MakeRequest(request)
  /\ UNCHANGED <<authVars, clientVars, pureVars, storageVars, stateVars, httpVars>>

\* ------------------------------------------------------- RetryHandler.execute
\* execute(fn) with a DefaultRetryStrategy, for any operation fn
ExecuteConfigChoices ==
  RetryConfigChoices
  \cup {[maxRetries |-> Num(0)], [maxRetries |-> Num(2)],
        [retryCondition |-> {"always"}], [retryCondition |-> {"never"}],
        [maxRetries |-> Num(1), retryCondition |-> {"always"}],
        [jitter |-> Num(0)], [useExponentialBackoff |-> {FALSE}],
        [jitter |-> Num(0), maxRetryDelay |-> Num(3000)]}

\* what fn throws: typed errors, transport errors as axios raises them (the
\* last one failed before anything was sent), another exception
OperationErrors ==
  {ApiError("NetworkError", Plain, Undefined, Null),
   ApiError("ServerError", Plain, Num(500), Null),
   ApiError("ValidationError", Plain, Num(400), Null),
   RateLimitError(Plain, Num(30), Num(429), Null),
   RateLimitError(Plain, Undefined, Num(429), Null),
   AxiosError(Response(503, NullBody, Undefined)),
   AxiosError(Response(400, NullBody, Undefined)),
   AxiosError(NoResponse),
   [AxiosError(NoResponse) EXCEPT !.request = FALSE],
   OtherError(Plain)}

\* invocations: how many times fn was called; error: what it threw last;
\* waits: the delays slept so far
NoExecute ==
  [pc |-> "idle", config |-> RetryConfig(EmptyObject), retryCount |-> 0,
   invocations |-> 0, waits |-> <<>>, error |-> Null, result |-> Pending]

\* execute(fn) up to the await of fn() (retry.ts:218-223)
ExecuteCall ==
  /\ execute.pc = "idle"
  /\ execute' = [execute EXCEPT !.pc = "fn", !.invocations = 1]
  /\ UNCHANGED <<authVars, clientVars, pureVars, storageVars, stateVars, requestVars, chainVars>>

\* fn() resolved (retry.ts:223)
OperationReturned ==
  /\ execute.pc = "fn"
  /\ execute' = [execute EXCEPT !.pc = "done",
                                !.result = Fulfilled(execute.invocations)]
  /\ UNCHANGED <<authVars, clientVars, pureVars, storageVars, stateVars, requestVars, chainVars>>

\* fn() threw error: the catch block (retry.ts:224-237)
OperationThrew(error) ==
  /\ execute.pc = "fn"
  /\ IF ShouldRetry(execute.config, error, execute.retryCount)
     THEN \E delay \in GetRetryDelay(execute.config, execute.retryCount + 1, error) :
            execute' = [execute EXCEPT !.pc = "delay", !.error = error,
                                       !.retryCount = execute.retryCount + 1,
                                       !.waits = Append(execute.waits, delay)]
     ELSE execute' = [execute EXCEPT !.pc = "done", !.error = error,
                                     !.result = Rejected(error)]
  /\ UNCHANGED <<authVars, clientVars, pureVars, storageVars, stateVars, requestVars, chainVars>>

\* the delay elapsed: fn is called again (retry.ts:237, 221-223)
ExecuteRetry ==
  /\ execute.pc = "delay"
  /\ execute' = [execute EXCEPT !.pc = "fn", !.invocations = execute.invocations + 1]
  /\ UNCHANGED <<authVars, clientVars, pureVars, storageVars, stateVars, requestVars, chainVars>>

\* ------------------------------------------------------ concurrency tokens
\* An object is a function on the keys it has.  A RowVersion or an Id is a
\* positive number; 0 stands for the empty string, which is falsy like a key
\* that is missing.
Truthy(object, key) == key \in DOMAIN object /\ object[key] # 0

\* mutant: the version of the resource replaces the one the data has
AddRowVersion_Overwrite(resource, data) ==
  IF Truthy(resource, "RowVersion")
  THEN Spread(data, [k \in {"RowVersion"} |-> resource.RowVersion])
  ELSE data

\* RowVersionHandler.addRowVersion(resource, data) (row-version.ts:21-31)
AddRowVersion(resource, data) ==
  IF Truthy(resource, "RowVersion") /\ ~Truthy(data, "RowVersion")
  THEN Spread(data, [k \in {"RowVersion"} |-> resource.RowVersion])
  ELSE data

\* the objects given as data: any of Id, RowVersion and Name present or not
Datas ==
  {d \in UNION {[keys -> {0, 7}] : keys \in SUBSET {"Id", "RowVersion", "Name"}} :
     /\ ("Id" \in DOMAIN d => d.Id = 7)
     /\ ("Name" \in DOMAIN d => d.Name = 7)}
\* the resources: RowVersion is set, empty, or missing
Resources == {[Id |-> 1, RowVersion |-> 8], [Id |-> 1, RowVersion |-> 0], [Id |-> 1]}

\* a request config as an interceptor sees it; data and metadata may be undefined
NoData == [isNoData |-> TRUE]
NoMetadata == [isNoMetadata |-> TRUE]
Methods == {"GET", "DELETE", "PUT", "PATCH", "POST", "put"}
ToLowerCase(method) ==
  CASE method = "GET" -> "get"
    [] method = "DELETE" -> "delete"
    [] method = "PUT" -> "put"
    [] method = "PATCH" -> "patch"
    [] method = "POST" -> "post"
    [] OTHER -> method
Metadatas == {NoMetadata, EmptyObject} \cup {[resource |-> r] : r \in Resources}
RequestConfigs == [method : Methods, data : Datas \cup {NoData}, metadata : Metadatas]

\* mutant: the method is not looked at
RowVersionInterceptor_AnyMethod(config) ==
  IF config.data # NoData
  THEN IF Truthy(config.data, "Id") /\ Truthy(config.data, "RowVersion")
       THEN config
       ELSE IF /\ config.metadata # NoMetadata
               /\ "resource" \in DOMAIN config.metadata
               /\ Truthy(config.metadata.resource, "RowVersion")
       THEN [config EXCEPT !.data = AddRowVersion(config.metadata.resource, config.data)]
       ELSE config
  ELSE config

\* the interceptor of RowVersionHandler.createRequestInterceptor()
\* (row-version.ts:38-70)
RowVersionInterceptor(config) ==
  IF config.data # NoData /\ ToLowerCase(config.method) \in {"put", "patch", "post"}
  THEN IF Truthy(config.data, "Id") /\ Truthy(config.data, "RowVersion")
       THEN config
       ELSE IF /\ config.metadata # NoMetadata
               /\ "resource" \in DOMAIN config.metadata
               /\ Truthy(config.metadata.resource, "RowVersion")
       THEN [config EXCEPT !.data = AddRowVersion(config.metadata.resource, config.data)]
       ELSE config
  ELSE config

\* ------------------------------------------------------------ interceptors
\* InterceptorManager: the two lists, and one applyRequestInterceptors() /
\* applyResponseInterceptors() call.  An entry of a list is a registration: the
\* function and the number of the registration, counted from 1 in the order
\* of the add calls.
MaxInterceptors == 3
InterceptorKinds == {"requestInterceptors", "responseInterceptors"}
UserInterceptors == {"u1", "u2"}
BuiltIn == "rowVersion"

NoRun == [pc |-> "idle"]
\* new HttpClient(config, sessionManager, { handleRowVersion })
\* (http-client.ts:90, 118-122)
\* handles: for each registration, in the order of the add calls, the list and
\* the function its remove function closes over; calling: the registration
\* whose remove function was called last, 0 when something else came after
NewInterceptors(handleRowVersion) ==
  [requestInterceptors |-> IF handleRowVersion THEN <<[id |-> 1, fn |-> BuiltIn]>> ELSE <<>>,
   responseInterceptors |-> <<>>,
   registered |-> IF handleRowVersion THEN 1 ELSE 0,
   handles |-> IF handleRowVersion
               THEN <<[kind |-> "requestInterceptors", fn |-> BuiltIn]>> ELSE <<>>,
   calling |-> 0,
   run |-> NoRun]

\* what a chain is applied to: an update that carries its resource, a response
ChainSubject(kind) ==
  IF kind = "requestInterceptors"
  THEN [method |-> "put", data |-> [Name |-> 7],
        metadata |-> [resource |-> [Id |-> 1, RowVersion |-> 8]]]
  ELSE [status |-> 200, data |-> [Id |-> 1, RowVersion |-> 8]]

\* what an interceptor returns for value: the built-in one as above, a user's
\* one leaves its mark behind those already there
Intercept(fn, value) ==
  IF fn = BuiltIn
  THEN [value EXCEPT !.subject = RowVersionInterceptor(value.subject)]
  ELSE [value EXCEPT !.marks = Append(value.marks, fn)]

\* mutant: the newest interceptor goes to the front of the list
Registered_First(list, entry) == <<entry>> \o list

\* this.requestInterceptors.push(interceptor)
Registered(list, entry) == Append(list, entry)

\* addRequestInterceptor / addResponseInterceptor (interceptors.ts:32-60)
AddInterceptor(kind, fn) ==
  /\ interceptors.registered < MaxInterceptors
  /\ interceptors' =
       [interceptors EXCEPT
          ![kind] = Registered(interceptors[kind],
                               [id |-> interceptors.registered + 1, fn |-> fn]),
          !.handles = Append(interceptors.handles, [kind |-> kind, fn |-> fn]),
          !.registered = interceptors.registered + 1,
          !.calling = 0]
  /\ UNCHANGED <<authVars, clientVars, pureVars, storageVars, stateVars, requestVars, retryVars>>

\* indexOf(interceptor): the first position of fn in list, 0 when it has none
IndexOf(list, fn) ==
  IF \E i \in 1..Len(list) : list[i].fn = fn
  THEN CHOOSE i \in 1..Len(list) :
         list[i].fn = fn /\ \A j \in 1..(i - 1) : list[j].fn # fn
  ELSE 0

\* splice(index, 1)
Splice(list, index) == [i \in 1..(Len(list) - 1) |-> IF i < index THEN list[i] ELSE list[i + 1]]

\* the body of a remove function: indexOf, then splice when the function was
\* found (interceptors.ts:37-40, 55-58)
Removed(list, fn) ==
  IF IndexOf(list, fn) # 0 THEN Splice(list, IndexOf(list, fn)) ELSE list

\* the function returned by the add call of registration id is called, the
\* first time or again (interceptors.ts:36-41, 54-59); the HttpClient drops
\* the remove function of its built-in interceptor (http-client.ts:120)
RemoveInterceptor(id) ==
  /\ id \in 1..interceptors.registered
  /\ interceptors.handles[id].fn # BuiltIn
  /\ LET kind == interceptors.handles[id].kind
         fn == interceptors.handles[id].fn
     IN  interceptors' =
           [interceptors EXCEPT
              ![kind] = Removed(interceptors[kind], fn),
              !.calling = id]
  /\ UNCHANGED <<authVars, clientVars, pureVars, storageVars, stateVars, requestVars, retryVars>>

\* clearInterceptors() of the HttpClient: clearAllInterceptors() gives the
\* manager two new arrays; a loop that is running goes on over the array it
\* started with, which no add or remove call reaches any more
\* (http-client.ts:293-295, interceptors.ts:97-114)
ClearInterceptors ==
  /\ interceptors.requestInterceptors # <<>> \/ interceptors.responseInterceptors # <<>>
  /\ interceptors' =
       [interceptors EXCEPT
          !.requestInterceptors = <<>>,
          !.responseInterceptors = <<>>,
          !.calling = 0,
          !.run = IF interceptors.run.pc = "loop" /\ ~interceptors.run.detached
                  THEN [interceptors.run EXCEPT
                          !.detached = TRUE,
                          !.list = interceptors[interceptors.run.kind]]
                  ELSE interceptors.run]
  /\ UNCHANGED <<authVars, clientVars, pureVars, storageVars, stateVars, requestVars, retryVars>>

\* one turn of the loop of applyRequestInterceptors / applyResponseInterceptors:
\* the next interceptor of the list as it is now is called with the value the
\* last one returned, or the loop ends (interceptors.ts:71-75, 87-91)
Iterate(manager, run) ==
  LET list == IF run.detached THEN run.list ELSE manager[run.kind]
  IN  IF run.index < Len(list)
      THEN LET entry == list[run.index + 1]
           IN  [run EXCEPT !.index = run.index + 1,
                           !.applied = Append(run.applied, entry),
                           !.value = Intercept(entry.fn, run.value)]
      ELSE [run EXCEPT !.pc = "returned", !.detached = FALSE, !.list = <<>>]

\* applyRequestInterceptors(config) / applyResponseInterceptors(response) up to
\* its first await (interceptors.ts:68-72, 84-88)
ApplyInterceptors(kind) ==
  /\ interceptors.run.pc \in {"idle", "returned"}
  /\ interceptors' =
       [interceptors EXCEPT
          !.calling = 0,
          !.run = Iterate(interceptors,
                          [pc |-> "loop", kind |-> kind, index |-> 0, applied |-> <<>>,
                           detached |-> FALSE, list |-> <<>>,
                           value |-> [subject |-> ChainSubject(kind), marks |-> <<>>]])]
  /\ UNCHANGED <<authVars, clientVars, pureVars, storageVars, stateVars, requestVars, retryVars>>

\* the interceptor that was awaited has returned
ApplyResume ==
  /\ interceptors.run.pc = "loop"
  /\ interceptors' = [interceptors EXCEPT !.calling = 0,
                                          !.run = Iterate(interceptors, interceptors.run)]
  /\ UNCHANGED <<authVars, clientVars, pureVars, storageVars, stateVars, requestVars, retryVars>>

\* ------------------------------------------------------ the exported MinimaxClient
\* minimax-client.ts:213: a token with less than this many ms left is expired
ExpiryMargin == 30000

\* config.organizationId: 0 when it is not given; no organizationIdentifier
ClientConfigs == [organizationId : {0} \cup OrgIds]
ClientOrgIds == {3}
ClientMethods == {"GET", "POST"}
ClientEndpoints == {"api/orgs/2/customers"}
ClientHeaders == {EmptyObject, [h \in {"Organization-Id"} |-> 3]}
ClientRequestOptions ==
  [data : Payloads, params : {EmptyObject, [p \in {"page"} |-> 1]},
   headers : ClientHeaders]
ClientTokens ==
  {Null} \cup {Token(0, 0, e, T0) : e \in {0, ServerExpiresIn \div 2, ServerExpiresIn}}
ClientOutcomes == {"ok", "r401", "r500", "noresp"}

\* sent: the configs handed to httpClient.request() by the request() call;
\* authenticated: the authenticate() calls made after a 401
NoClient ==
  [config |-> [organizationId |-> 0], organizationId |-> 0, token |-> Null,
   pc |-> "idle", method |-> "", endpoint |-> "", options |-> Null,
   sent |-> <<>>, authenticated |-> 0, result |-> Pending]

\* new MinimaxClient(config) (minimax-client.ts:97-119)
NewClient(config) ==
  [NoClient EXCEPT !.config = config, !.organizationId = config.organizationId]

\* isTokenExpired() (minimax-client.ts:204-214)
IsTokenExpired(token) ==
  IF token = Null THEN TRUE
  ELSE (token.obtained_at + token.expires_in * MsPerSecond) - now < ExpiryMargin

\* setOrganizationFromConfig() without an organizationIdentifier
\* (minimax-client.ts:163-200)
SetOrganizationFromConfig(c) ==
  IF c.config.organizationId # 0 THEN c.config.organizationId ELSE c.organizationId

\* the headers of the first transport call (minimax-client.ts:306-314)
FirstRequestHeaders(c, token) ==
  LET headers == Spread([h \in {"Authorization"} |-> Bearer(token)], c.options.headers)
  IN  IF c.organizationId # 0
      THEN Spread(headers, [h \in {"Organization-Id"} |-> c.organizationId])
      ELSE headers

\* the headers of the transport call made after a 401 (minimax-client.ts:351-354)
RetryRequestHeaders(c, token) ==
  Spread([h \in {"Authorization"} |-> Bearer(token)], c.options.headers)

\* the config handed to httpClient.request() (minimax-client.ts:320-326, 346-355)
RequestConfig(c, headers) ==
  [method |-> c.method, url |-> c.endpoint, data |-> c.options.data,
   params |-> c.options.params, headers |-> headers]

\* request() from the resolved getAccessToken() to its first transport call
\* (minimax-client.ts:303-326)
SendRequest(c) ==
  [c EXCEPT !.pc = "request",
            !.sent = Append(c.sent, RequestConfig(c, FirstRequestHeaders(c, c.token)))]

\* request(method, endpoint, options) up to its first network call: the
\* transport call, or the token call of getAccessToken()
\* (minimax-client.ts:293-303, 259-265, 221-225)
ClientRequest(method, endpoint, requestOptions) ==
  /\ client.pc = "idle"
  /\ LET c == [client EXCEPT !.method = method, !.endpoint = endpoint,
                             !.options = requestOptions]
     IN  client' = IF ~IsTokenExpired(c.token) THEN SendRequest(c)
                   ELSE IF c.token = Null THEN [c EXCEPT !.pc = "authenticate"]
                   ELSE [c EXCEPT !.pc = "refreshToken"]
  /\ UNCHANGED <<authVars, pureVars, storageVars, stateVars, requestVars, httpVars>>

\* the auth endpoint answers the refresh grant of refreshToken()
\* (minimax-client.ts:236-252)
ClientRefreshed(ok) ==
  /\ client.pc = "refreshToken"
  /\ client' = IF ok
               THEN SendRequest([client EXCEPT
                                   !.token = StampedToken(ResponseData(issued + 1))])
               ELSE [client EXCEPT !.token = Null, !.pc = "authenticate"]
  /\ issued' = IF ok THEN issued + 1 ELSE issued
  /\ UNCHANGED <<cfg, options, store, now, refreshing, refreshPromise, promises, chains,
                 callers, currentOrganizationId, login, logout, netCalls, loggedOut>>
  /\ UNCHANGED <<pureVars, storageVars, stateVars, requestVars, httpVars>>

\* the auth endpoint answers the password grant of authenticate(), called by
\* getAccessToken() or after a 401 (minimax-client.ts:126-156, 336-357)
ClientAuthenticated(ok) ==
  /\ client.pc \in {"authenticate", "reauthenticate"}
  /\ client' =
       IF ok
       THEN LET token == StampedToken(ResponseData(issued + 1))
                c == [client EXCEPT !.token = token,
                                    !.organizationId = SetOrganizationFromConfig(client)]
            IN  IF client.pc = "authenticate"
                THEN SendRequest(c)
                ELSE [c EXCEPT !.pc = "retry",
                               !.sent = Append(c.sent,
                                          RequestConfig(c, RetryRequestHeaders(c, token)))]
       ELSE [client EXCEPT !.pc = "done",
                           !.result = Rejected([message |-> "Authentication failed"])]
  /\ issued' = IF ok THEN issued + 1 ELSE issued
  /\ UNCHANGED <<cfg, options, store, now, refreshing, refreshPromise, promises, chains,
                 callers, currentOrganizationId, login, logout, netCalls, loggedOut>>
  /\ UNCHANGED <<pureVars, storageVars, stateVars, requestVars, httpVars>>

\* a transport call of request() is answered (minimax-client.ts:328-366): a 401
\* to the first call drops the token and authenticates again, any failure of
\* the second call leaves request() as it is
ClientResponded(outcome) ==
  /\ client.pc \in {"request", "retry"}
  /\ client' =
       IF outcome = "ok"
       THEN [client EXCEPT !.pc = "done", !.result = Fulfilled([data |-> "a"])]
       ELSE IF client.pc = "retry"
       THEN [client EXCEPT !.pc = "done", !.result = Rejected([message |-> outcome])]
       ELSE IF outcome = "r401"
       THEN [client EXCEPT !.pc = "reauthenticate", !.token = Null,
                           !.authenticated = client.authenticated + 1]
       ELSE IF outcome = "noresp"
       THEN [client EXCEPT !.pc = "done",
                           !.result = Rejected([message |-> "Request failed"])]
       ELSE [client EXCEPT !.pc = "done",
                           !.result = Rejected([message |-> "API request failed"])]
  /\ UNCHANGED <<authVars, pureVars, storageVars, stateVars, requestVars, httpVars>>

\* MinimaxClient.setOrganizationId(organizationId) (minimax-client.ts:272-274)
ClientSetOrganizationId(organizationId) ==
  /\ client.organizationId # organizationId
  /\ client' = [client EXCEPT !.organizationId = organizationId]
  /\ UNCHANGED <<authVars, pureVars, storageVars, stateVars, requestVars, httpVars>>

\* ------------------------------------------------------------ construction
\* new TokenRefreshManager(oauth2Client, options)
ManagerOptionChoices ==
  {EmptyObject, [maxRefreshAttempts |-> Num(1)], [maxRefreshAttempts |-> Num(2)],
   [refreshBuffer |-> Num(0)]}

\* new SessionManager(config, oauth2Client, options)
SessionOptionChoices ==
  {EmptyObject, [autoRefreshToken |-> {FALSE}],
   [maxRefreshAttempts |-> Num(2), refreshBuffer |-> Num(0)]}

\* config.defaultOrgId: 0 when the configuration names none
DefaultOrgIds == {0, 1}

Constructions ==
  {[kind |-> "manager", given |-> o, defaultOrgId |-> 0] : o \in ManagerOptionChoices}
  \cup
  {[kind |-> "session", given |-> o, defaultOrgId |-> d] :
     o \in SessionOptionChoices, d \in DefaultOrgIds}

\* the options the TokenRefreshManager of construction k ends up with
ResolvedOptions(k) ==
  IF k.kind = "session"
  THEN TokenRefreshManagerOptions(SessionRefreshOptions(k.given))
  ELSE TokenRefreshManagerOptions(k.given)

\* what a token store can hold when the client starts: nothing, or a token saved
\* by an earlier run at T0
InitialExpiresIn == {0, ServerExpiresIn \div 2, ServerExpiresIn}
InitialStores ==
  {Null} \cup {Token(1, rt, e, T0) : rt \in {0, 1}, e \in InitialExpiresIn}

AuthInit ==
  /\ cfg \in Constructions
  /\ options = ResolvedOptions(cfg)
  /\ store \in InitialStores
  /\ now = T0
  /\ refreshing = FALSE
  /\ refreshPromise = 0
  /\ promises = [i \in RefreshIds |-> NoPromise]
  /\ chains = [i \in RefreshIds |-> NoChain]
  /\ callers = [c \in Callers |-> IdleCaller]
  /\ currentOrganizationId =
       IF cfg.kind = "session"
       THEN InitialOrganizationId(cfg.given, cfg.defaultOrgId) ELSE 0
  /\ login = IdleLogin
  /\ logout = "idle"
  /\ netCalls = 0
  /\ issued = 1
  /\ loggedOut = "no"

\* ------------------------------------------------- synchronous functions
\* a call of a function that runs to completion in one step: it is made with
\* the arguments held by invoked, and returned records what it gave back
NoCall == [op |-> "none"]

\* arguments of isTokenValid: expires_in in seconds around one and two minutes,
\* obtained_at one millisecond around the start of the clock, 0 for a missing field
ValidityExpiresIn == {0, TickMs \div MsPerSecond, ServerExpiresIn}
ValidityObtainedAt == {0, T0 - 1, T0, T0 + 1}
ValidityTokens ==
  {Null} \cup {Token(1, 1, e, o) : e \in ValidityExpiresIn, o \in ValidityObtainedAt}
ValidityBuffers ==
  {Undefined, Num(0), Num(1), Num(DefaultExpirationBuffer - 1),
   Num(DefaultExpirationBuffer), Num(2 * DefaultExpirationBuffer)}
IsTokenValidCalls ==
  {[op |-> "isTokenValid", token |-> t, expirationBuffer |-> b] :
     t \in ValidityTokens, b \in ValidityBuffers}

\* oauth2Client.isTokenValid(token, expirationBuffer) (index.ts:209-224)
IsTokenValidCall ==
  /\ invoked.op = "isTokenValid"
  /\ returned = NotReturned
  /\ returned' = Returned(IsTokenValid(invoked.token, invoked.expirationBuffer))
  /\ UNCHANGED <<authVars, clientVars, invoked, storageVars, stateVars, requestVars, httpVars>>

\* every way a call to the auth endpoint fails: no response, a response with an
\* error status, an exception that is not a transport error
AuthFailures == (Outcomes \ {"ok"}) \cup {"r403", "r404", "r429", "r503"}
HandleAuthErrorCalls == {[op |-> "handleAuthError", error |-> o] : o \in AuthFailures}

\* handleAuthError(error) in the catch block of authenticate / refreshToken
\* (index.ts:152-154, 188-190, 252-291)
HandleAuthErrorCall ==
  /\ invoked.op = "handleAuthError"
  /\ returned = NotReturned
  /\ returned' = Rejected(HandleAuthError(invoked.error, 0))
  /\ UNCHANGED <<authVars, clientVars, invoked, storageVars, stateVars, requestVars, httpVars>>

\* how getValidToken() settles: with a token, with an error of the auth client,
\* with its own AuthenticationError, or with an error of another origin
GetValidTokenOutcomes ==
  {Fulfilled(t) : t \in ValidityTokens \ {Null}}
  \cup {Rejected(HandleAuthError(o, n)) : o \in AuthFailures, n \in 1..MaxCalls}
  \cup {Rejected(NoTokenError), Rejected(Error("TypeError", Undefined, Null))}
GetAuthTokenCalls == {[op |-> "getAuthToken", outcome |-> r] : r \in GetValidTokenOutcomes}

\* getAuthToken() once getValidToken() has settled (session.ts:172-186)
GetAuthTokenCall ==
  /\ invoked.op = "getAuthToken"
  /\ returned = NotReturned
  /\ returned' = GetAuthTokenOutcome(invoked.outcome)
  /\ UNCHANGED <<authVars, clientVars, invoked, storageVars, stateVars, requestVars, httpVars>>

\* errors that are typed already: those the pipeline builds, with messages of
\* each kind, and those of the session layer
TypedErrors ==
  {ApiError(n, m, sc, Null) :
     n \in MinimaxErrorNames \ {"ConcurrencyError", "RateLimitError"},
     m \in {Plain, Msg({"concurrency"}, Undefined),
            Msg({"concurrency", "rowversion"}, Num(7))},
     sc \in {Undefined, Num(409), Num(500)}}
  \cup {ConcurrencyError(m, m.rowVersion, Num(409), Null) :
          m \in {Plain, Msg({"concurrency", "rowversion"}, Num(7)),
                 Msg({"rowversion"}, Num(8))}}
  \cup {RateLimitError(Plain, Num(5), Num(429), Null),
        HandleAuthError("r401", 1), NoTokenError}
ProcessErrorCalls == {[op |-> "processError", thrown |-> e] : e \in TypedErrors}

\* processRequestError(error) of an HttpClient with RowVersion handling
\* (http-client.ts:256-259)
ProcessErrorCall ==
  /\ invoked.op = "processError"
  /\ returned = NotReturned
  /\ returned' = Returned(ProcessError(invoked.thrown))
  /\ UNCHANGED <<authVars, clientVars, invoked, storageVars, stateVars, requestVars, httpVars>>

AddRowVersionCalls ==
  {[op |-> "addRowVersion", resource |-> r, data |-> d] : r \in Resources, d \in Datas}

\* rowVersionHandler.addRowVersion(resource, data) (row-version.ts:21-31)
AddRowVersionCall ==
  /\ invoked.op = "addRowVersion"
  /\ returned = NotReturned
  /\ returned' = Returned(AddRowVersion(invoked.resource, invoked.data))
  /\ UNCHANGED <<authVars, clientVars, invoked, storageVars, stateVars, requestVars, httpVars>>

InterceptorCalls == {[op |-> "requestInterceptor", config |-> c] : c \in RequestConfigs}

\* the interceptor made by createRequestInterceptor() is given a request config
\* (row-version.ts:39-69)
RowVersionInterceptorCall ==
  /\ invoked.op = "requestInterceptor"
  /\ returned = NotReturned
  /\ returned' = Returned(RowVersionInterceptor(invoked.config))
  /\ UNCHANGED <<authVars, clientVars, invoked, storageVars, stateVars, requestVars, httpVars>>

\* strategies with and without jitter and backoff, with a low cap, with a base
\* delay above the cap; errors with and without a retryAfter
DelayConfigChoices ==
  {EmptyObject, [jitter |-> Num(0)], [useExponentialBackoff |-> {FALSE}],
   [maxRetryDelay |-> Num(3000)], [jitter |-> Num(0), maxRetryDelay |-> Num(3000)],
   [retryDelay |-> Num(40000)]}
DelayErrors ==
  {ApiError("NetworkError", Plain, Undefined, Null),
   ApiError("ServerError", Plain, Num(500), Null),
   RateLimitError(Plain, Num(5), Num(429), Null),
   RateLimitError(Plain, Num(60), Num(429), Null),
   RateLimitError(Plain, Num(0), Num(429), Null),
   RateLimitError(Plain, Undefined, Num(429), Null),
   AxiosError(Response(503, NullBody, Undefined))}
DelayRetryCounts == 0..3
GetRetryDelayCalls ==
  {[op |-> "getRetryDelay", strategy |-> RetryConfig(g), retryCount |-> n, failure |-> e] :
     g \in DelayConfigChoices, n \in DelayRetryCounts, e \in DelayErrors}

\* new DefaultRetryStrategy(config).getRetryDelay(retryCount, error)
\* (retry.ts:110-112, 170-192)
GetRetryDelayCall ==
  /\ invoked.op = "getRetryDelay"
  /\ returned = NotReturned
  /\ \E delay \in GetRetryDelay(invoked.strategy, invoked.retryCount, invoked.failure) :
       returned' = Returned(delay)
  /\ UNCHANGED <<authVars, clientVars, invoked, storageVars, stateVars, requestVars, httpVars>>

PureCalls ==
  IsTokenValidCalls \cup HandleAuthErrorCalls \cup GetAuthTokenCalls
  \cup ProcessErrorCalls \cup AddRowVersionCalls \cup InterceptorCalls
  \cup GetRetryDelayCalls

\* ------------------------------------------------------------ token stores
\* The caller awaits each operation before it starts the next one, so an
\* operation is one step.  Writing the token file fails when its directory is
\* missing and is not to be created, and saveToken() then rejects; reading and
\* deleting a file that exists succeed.
StorageKinds == {"memory", "file", "env", "custom"}
TokenFields == {"access_token", "refresh_token", "expires_in", "obtained_at"}

\* the medium holds nothing: no file, no environment variable, token = null
Absent == [absent |-> TRUE]
\* text that is not JSON, and the empty string
Garbage == [garbage |-> TRUE]
EmptyText == [empty |-> TRUE]

\* JSON.stringify(token): the members of the object; a field that is undefined
\* is left out
Stringify(token) == [k \in {f \in TokenFields : token[f] # 0} |-> token[k]]

\* mutant: the parsed token loses the time it was obtained
Parse_DropObtainedAt(text) ==
  [f \in TokenFields |->
     IF f \in DOMAIN text /\ f # "obtained_at" THEN text[f] ELSE 0]

\* JSON.parse(text) of a JSON text: a field that has no member is undefined
Parse(text) == [f \in TokenFields |-> IF f \in DOMAIN text THEN text[f] ELSE 0]

IsJson(text) == text \notin {Absent, Garbage, EmptyText}

\* the tokens handed to saveToken, with and without the optional fields
StorableTokens ==
  {Token(1, 1, ServerExpiresIn, T0), Token(2, 0, ServerExpiresIn, T0),
   Token(3, 3, ServerExpiresIn, 0), Token(4, 0, ServerExpiresIn, 0),
   Token(5, 5, ServerExpiresIn, T0 + TickMs),
   Token(6, 6, TickMs \div MsPerSecond, T0), Token(7, 0, TickMs \div MsPerSecond, 0)}

\* a store as it is constructed: the memory field is null, the custom callbacks
\* have nothing behind them, the file or the environment variable does not
\* exist or holds what something else left there
\* (createDir is the option of the file store, dir says whether the directory
\* of its file exists)
InitialStorages ==
  {[kind |-> k, medium |-> Absent, createDir |-> TRUE, dir |-> TRUE] :
     k \in StorageKinds \ {"file"}}
  \cup {[kind |-> "env", medium |-> x, createDir |-> TRUE, dir |-> TRUE] :
          x \in {Garbage, EmptyText}}
  \cup {[kind |-> "file", medium |-> Absent, createDir |-> c, dir |-> d] :
          c \in BOOLEAN, d \in BOOLEAN}
  \cup {[kind |-> "file", medium |-> x, createDir |-> c, dir |-> TRUE] :
          x \in {Garbage, EmptyText}, c \in BOOLEAN}

MemoryStorage == [kind |-> "memory", medium |-> Absent, createDir |-> TRUE, dir |-> TRUE]

NoWrite == [op |-> "none"]

\* saveToken(token) (part_001:366-368, part_005:60-74, 138-140, 210-212)
SaveToken(token) ==
  /\ IF tokenStorage.kind = "file" /\ ~tokenStorage.dir /\ ~tokenStorage.createDir
     THEN UNCHANGED <<tokenStorage, lastWrite>>
     ELSE /\ tokenStorage' =
               [tokenStorage EXCEPT !.dir = TRUE,
                                    !.medium =
                  IF tokenStorage.kind \in {"file", "env"}
                  THEN Stringify(token) ELSE token]
          /\ lastWrite' = [op |-> "save", token |-> token]
  /\ lastRead' = NotReturned
  /\ UNCHANGED <<authVars, clientVars, pureVars, stateVars, requestVars, httpVars>>

\* getToken() (part_001:370-372, part_005:81-89, 147-158, 219-221)
GetToken ==
  /\ lastRead' =
       Returned(CASE tokenStorage.kind \in {"memory", "custom"} ->
                       IF tokenStorage.medium = Absent THEN Null ELSE tokenStorage.medium
                  [] tokenStorage.kind = "file" ->
                       IF IsJson(tokenStorage.medium)
                       THEN Parse(tokenStorage.medium) ELSE Null
                  [] tokenStorage.kind = "env" ->
                       IF tokenStorage.medium \in {Absent, EmptyText} THEN Null
                       ELSE IF IsJson(tokenStorage.medium)
                       THEN Parse(tokenStorage.medium) ELSE Null)
  /\ UNCHANGED <<authVars, clientVars, pureVars, tokenStorage, lastWrite, stateVars,
                 requestVars, httpVars>>

\* clearToken() (part_001:374-376, part_005:94-100, 163-165, 226-228)
ClearToken ==
  /\ tokenStorage' = [tokenStorage EXCEPT !.medium = Absent]
  /\ lastWrite' = [op |-> "clear"]
  /\ lastRead' = NotReturned
  /\ UNCHANGED <<authVars, clientVars, pureVars, stateVars, requestVars, httpVars>>

Init ==
  /\ AuthInit
  /\ invoked = NoCall
  /\ returned = NotReturned
  /\ tokenStorage = MemoryStorage
  /\ lastWrite = NoWrite
  /\ lastRead = NotReturned
  /\ sessionState = NoSessionStateCall
  /\ request = NoRequest
  /\ execute = NoExecute
  /\ interceptors = NewInterceptors(TRUE)
  /\ client = NoClient

\* the refresh coordinator used by the callers cs, the auth endpoint answering
\* a refresh call with one of outcomes
CoordinatorNext(cs, outcomes) ==
  \/ \E c \in cs : GetValidTokenCall(c)
  \/ \E c \in cs : GetValidTokenResume(c)
  \/ \E id \in RefreshIds, outcome \in outcomes : RefreshRespond(id, outcome)
  \/ \E id \in RefreshIds : RefreshSaved(id)
  \/ \E id \in RefreshIds : RetryTimer(id)
  \/ \E c \in cs : LeaderResume(c)
  \/ \E c \in cs : FollowerResume(c)

SessionNext ==
  \/ LoginCall
  \/ \E outcome \in LoginOutcomes : LoginRespond(outcome)
  \/ LoginResume
  \/ LogoutCall
  \/ LogoutResume
  \/ \E o \in OrgIds : SetOrganizationId(o)

\* Spec: NCallers concurrent callers of one coordinator; a refresh call succeeds,
\* gets no response, or is answered 401
CoalesceOutcomes == {"ok", "noresp", "r401"}
Next == CoordinatorNext(Callers, CoalesceOutcomes) \/ Tick
Spec == Init /\ [][Next]_vars

\* SpecRetry: two callers, every outcome of a refresh call
TwoCallers == {1, 2}
NextRetry == CoordinatorNext(TwoCallers, Outcomes) \/ Tick
SpecRetry == Init /\ [][NextRetry]_vars

\* SpecRequest: one HttpClient.request() call
InitRequest ==
  /\ AuthInit
  /\ cfg.kind = "session"
  /\ cfg.given = EmptyObject
  /\ store = Null
  /\ invoked = NoCall
  /\ returned = NotReturned
  /\ tokenStorage = MemoryStorage
  /\ lastWrite = NoWrite
  /\ lastRead = NotReturned
  /\ sessionState = NoSessionStateCall
  /\ \E given \in RetryConfigChoices :
       request = [NoRequest EXCEPT !.config = RetryConfig(given)]
  /\ execute = NoExecute
  /\ interceptors = NewInterceptors(TRUE)
  /\ client = NoClient
NextRequest ==
  \/ \E requestOptions \in RequestOptions : RequestCall(requestOptions)
  \/ \E outcome \in AuthTokenOutcomes : AuthTokenSettled(outcome)
  \/ RequestAuthenticated
  \/ \E payload \in Payloads : RequestSucceeded(payload)
  \/ \E raw \in TransportFailures : RequestTransportFailed(raw)
  \/ RequestRetry
  \/ \E o \in OrgIds : SetOrganizationId(o)
SpecRequest == InitRequest /\ [][NextRequest]_vars

\* SpecExecute: one RetryHandler.execute() call of an operation that returns or
\* throws, under each retry configuration
InitExecute ==
  /\ AuthInit
  /\ cfg.kind = "manager"
  /\ cfg.given = EmptyObject
  /\ store = Null
  /\ invoked = NoCall
  /\ returned = NotReturned
  /\ tokenStorage = MemoryStorage
  /\ lastWrite = NoWrite
  /\ lastRead = NotReturned
  /\ sessionState = NoSessionStateCall
  /\ request = NoRequest
  /\ \E given \in ExecuteConfigChoices :
       execute = [NoExecute EXCEPT !.config = RetryConfig(given)]
  /\ interceptors = NewInterceptors(TRUE)
  /\ client = NoClient
NextExecute ==
  \/ ExecuteCall
  \/ OperationReturned
  \/ \E error \in OperationErrors : OperationThrew(error)
  \/ ExecuteRetry
SpecExecute == InitExecute /\ [][NextExecute]_vars

\* SpecChain: the interceptors of one HttpClient, registered, removed and
\* cleared while its chains run
InitChain ==
  /\ AuthInit
  /\ cfg.kind = "manager"
  /\ cfg.given = EmptyObject
  /\ store = Null
  /\ invoked = NoCall
  /\ returned = NotReturned
  /\ tokenStorage = MemoryStorage
  /\ lastWrite = NoWrite
  /\ lastRead = NotReturned
  /\ sessionState = NoSessionStateCall
  /\ request = NoRequest
  /\ execute = NoExecute
  /\ \E handleRowVersion \in BOOLEAN : interceptors = NewInterceptors(handleRowVersion)
  /\ client = NoClient
NextChain ==
  \/ \E kind \in InterceptorKinds, fn \in UserInterceptors : AddInterceptor(kind, fn)
  \/ \E id \in 1..MaxInterceptors : RemoveInterceptor(id)
  \/ ClearInterceptors
  \/ \E kind \in InterceptorKinds : ApplyInterceptors(kind)
  \/ ApplyResume
SpecChain == InitChain /\ [][NextChain]_vars

\* SpecClient: one request() call of an exported MinimaxClient, the clock
\* running and setOrganizationId() called at any point
InitClient ==
  /\ AuthInit
  /\ cfg.kind = "manager"
  /\ cfg.given = EmptyObject
  /\ store = Null
  /\ invoked = NoCall
  /\ returned = NotReturned
  /\ tokenStorage = MemoryStorage
  /\ lastWrite = NoWrite
  /\ lastRead = NotReturned
  /\ sessionState = NoSessionStateCall
  /\ request = NoRequest
  /\ execute = NoExecute
  /\ interceptors = NewInterceptors(TRUE)
  /\ \E config \in ClientConfigs, token \in ClientTokens :
       client = [NewClient(config) EXCEPT !.token = token]
NextClient ==
  \/ \E method \in ClientMethods, endpoint \in ClientEndpoints,
        requestOptions \in ClientRequestOptions :
       ClientRequest(method, endpoint, requestOptions)
  \/ \E ok \in BOOLEAN : ClientRefreshed(ok)
  \/ \E ok \in BOOLEAN : ClientAuthenticated(ok)
  \/ \E outcome \in ClientOutcomes : ClientResponded(outcome)
  \/ \E organizationId \in ClientOrgIds : ClientSetOrganizationId(organizationId)
  \/ Tick
SpecClient == InitClient /\ [][NextClient]_vars

\* SpecStorage: one token store of any kind, used by one caller at a time
InitStorage ==
  /\ AuthInit
  /\ cfg.kind = "manager"
  /\ cfg.given = EmptyObject
  /\ store = Null
  /\ invoked = NoCall
  /\ returned = NotReturned
  /\ tokenStorage \in InitialStorages
  /\ lastWrite = NoWrite
  /\ lastRead = NotReturned
  /\ sessionState = NoSessionStateCall
  /\ request = NoRequest
  /\ execute = NoExecute
  /\ interceptors = NewInterceptors(TRUE)
  /\ client = NoClient
NextStorage ==
  \/ \E token \in StorableTokens : SaveToken(token)
  \/ GetToken
  \/ ClearToken
SpecStorage == InitStorage /\ [][NextStorage]_vars

\* SpecPure: one call of a synchronous function, with arguments drawn from
\* bounded sets, at any instant of the clock
InitPure ==
  /\ AuthInit
  /\ store = Null
  /\ invoked \in PureCalls
  /\ returned = NotReturned
  /\ tokenStorage = MemoryStorage
  /\ lastWrite = NoWrite
  /\ lastRead = NotReturned
  /\ sessionState = NoSessionStateCall
  /\ request = NoRequest
  /\ execute = NoExecute
  /\ interceptors = NewInterceptors(TRUE)
  /\ client = NoClient
NextPure ==
  \/ IsTokenValidCall
  \/ HandleAuthErrorCall
  \/ GetAuthTokenCall
  \/ ProcessErrorCall
  \/ AddRowVersionCall
  \/ RowVersionInterceptorCall
  \/ GetRetryDelayCall
  \/ Tick
SpecPure == InitPure /\ [][NextPure]_vars

\* SpecSession: a SessionManager with login(), logout() and setOrganizationId()
\* next to two callers of getAuthToken(); the clock stands still
InitSession == Init /\ cfg.kind = "session"
NextSession == CoordinatorNext(TwoCallers, CoalesceOutcomes) \/ SessionNext
SpecSession == InitSession /\ [][NextSession]_vars

\* SpecAuth: login() next to two callers of getAuthToken(), the clock running
NextAuth ==
  \/ CoordinatorNext(TwoCallers, CoalesceOutcomes)
  \/ LoginCall
  \/ \E outcome \in LoginOutcomes : LoginRespond(outcome)
  \/ LoginResume
  \/ Tick
SpecAuth == InitSession /\ [][NextAuth]_vars

\* SpecState: getSessionState() / isAuthenticated() next to two callers of
\* getAuthToken() and setOrganizationId(), the clock running
NextState ==
  \/ CoordinatorNext(TwoCallers, CoalesceOutcomes)
  \/ \E op \in SessionStateOps : GetSessionStateCall(op)
  \/ GetSessionStateResume
  \/ \E o \in OrgIds : SetOrganizationId(o)
  \/ Tick
SpecState == InitSession /\ [][NextState]_vars

\* ------------------------------------------------------------------ claims
\* the refresh chains that are outstanding: issued, saving or waiting to retry
Outstanding ==
  {id \in RefreshIds : chains[id].pc \in {"post", "saveToken", "retryDelay"}}

\* C1: in every reachable state at most one refresh operation (one attemptRefresh
\* chain, with its retries and waits) is outstanding, and it is the one
\* refreshPromise refers to
C1_AtMostOneRefresh ==
  /\ Cardinality(Outstanding) <= 1
  /\ \A id \in Outstanding : refreshing /\ refreshPromise = id

\* C1 witness: a chain waiting to retry with two callers awaiting it
C1_Witness ==
  \E id \in RefreshIds, c1, c2 \in Callers :
    /\ chains[id].pc = "retryDelay"
    /\ callers[c1].pc = "awaitRefresh" /\ callers[c1].promise = id
    /\ callers[c2].pc = "awaitPromise" /\ callers[c2].promise = id

\* C2: when every caller found the same expired token (or joined the refresh
\* in flight) and every refresh call succeeded, exactly one refresh network
\* call was made
C2_ExactlyOneRefreshCall ==
  ( /\ \A c \in Callers : callers[c].pc = "done"
    /\ \A c \in Callers : callers[c].path \in {"refresh", "joined", "coalesced"}
    /\ \A c \in Callers :
         callers[c].path = "coalesced" \/ callers[c].token = callers[1].token
    /\ callers[1].token.expires_in # 0
    /\ \A id \in RefreshIds : chains[id].lastError = Null )
  => netCalls = 1

\* C3: callers coalesced onto one refresh complete with the same outcome, the
\* same token or the same error
C3_SameOutcome ==
  \A c1, c2 \in Callers :
    ( /\ callers[c1].pc = "done" /\ callers[c2].pc = "done"
      /\ callers[c1].promise # 0
      /\ callers[c1].promise = callers[c2].promise )
    => /\ callers[c1].result = callers[c2].result
       /\ callers[c1].result.status \in {"fulfilled", "rejected"}

\* C3 witness: two callers of one refresh, both rejected
C3_Witness ==
  \E c1, c2 \in Callers :
    /\ c1 # c2
    /\ callers[c1].pc = "done" /\ callers[c2].pc = "done"
    /\ callers[c1].promise # 0
    /\ callers[c1].promise = callers[c2].promise
    /\ callers[c1].result.status = "rejected"

\* C4: a SessionManager constructed without refresh options makes at most 3
\* refresh calls (the default maxRefreshAttempts) and then stops retrying
C4_DefaultSessionStopsAfterThree ==
  (cfg.kind = "session" /\ DOMAIN cfg.given = {})
  => \A id \in RefreshIds :
       /\ chains[id].calls <= DefaultMaxRefreshAttempts
       /\ chains[id].pc = "retryDelay" =>
            chains[id].calls < DefaultMaxRefreshAttempts

Is401(error) ==
  /\ error # Null
  /\ error.name = "AuthenticationError"
  /\ error.statusCode = Num(401)

\* C5: a refresh attempt that fails with AuthenticationError 401 is never
\* retried: the chain is settled and its promise rejected with that error
C5_NoRetryAfter401 ==
  \A id \in RefreshIds :
    Is401(chains[id].lastError)
    => /\ chains[id].pc = "settled"
       /\ promises[id] = Rejected(chains[id].lastError)

\* C5 witness: a first attempt answered 401 where a retry was still allowed, and
\* the caller rejected after that one call
C5_Witness ==
  \E id \in RefreshIds, c \in Callers :
    /\ Is401(chains[id].lastError)
    /\ chains[id].calls = 1
    /\ ~ReachedMaxAttempts(0)
    /\ callers[c].pc = "done"
    /\ callers[c].result = Rejected(chains[id].lastError)

IsTransient(error) ==
  /\ error # Null
  /\ \/ error.name = "NetworkError"
     \/ error.name = "AuthenticationError" /\ error.statusCode # Num(401)

\* C6: with maxRefreshAttempts = m >= 1 a chain makes at most m calls; it waits
\* to retry only after a transient error and with calls left; rejected after a
\* transient error it has made exactly m calls and carries the last error;
\* fulfilled it carries the token of its last call
C6_ExactlyMaxAttempts ==
  ( options.maxRefreshAttempts # Undefined /\ Val(options.maxRefreshAttempts) >= 1 )
  => \A id \in RefreshIds :
       LET m == Val(options.maxRefreshAttempts)
           ch == chains[id]
       IN  /\ ch.calls <= m
           /\ ch.pc = "retryDelay" => ch.calls < m /\ IsTransient(ch.lastError)
           /\ promises[id].status = "rejected" =>
                /\ promises[id].value = ch.lastError
                /\ IsTransient(ch.lastError) => ch.calls = m
           /\ promises[id].status = "fulfilled" =>
                /\ promises[id].value = ch.token
                /\ ch.token.obtained_at <= now
                /\ ch.pc = "settled"

\* C6 witness: m >= 2 calls all failed with a transient error, and the chain
\* rejected with the last one
C6_Witness ==
  \E id \in RefreshIds :
    /\ options.maxRefreshAttempts # Undefined
    /\ Val(options.maxRefreshAttempts) >= 2
    /\ chains[id].calls = Val(options.maxRefreshAttempts)
    /\ IsTransient(chains[id].lastError)
    /\ promises[id] = Rejected(chains[id].lastError)

\* C7: once logout() has completed the token store stays empty until the next
\* login()
C7_StaysLoggedOut == loggedOut = "yes" => store = Null

\* C8: with autoRefreshToken = false no refresh network call is ever issued
C8_NoRefreshWhenDisabled ==
  (cfg.kind = "session" /\ ~AutoRefresh(cfg.given)) => netCalls = 0

\* valid under the coordinator's configured buffer (the default when none is set)
ValidUnderConfiguredBuffer(token) ==
  /\ token # Null
  /\ token.expires_in # 0
  /\ token.obtained_at # 0
  /\ now < token.obtained_at + token.expires_in * MsPerSecond
           - (IF options.refreshBuffer = Undefined
              THEN DefaultExpirationBuffer ELSE Val(options.refreshBuffer))

\* C9: when the token getValidToken() loaded is valid under the configured
\* buffer, the call returns exactly that token, with no refresh call and no
\* token-store write
C9_ValidTokenReturned ==
  [][\A c \in Callers :
       ( /\ callers[c].pc = "getToken"
         /\ callers'[c].pc # "getToken"
         /\ ValidUnderConfiguredBuffer(callers[c].token) )
       => /\ callers'[c].pc = "done"
          /\ callers'[c].result = Fulfilled(callers[c].token)
          /\ netCalls' = netCalls
          /\ store' = store
          /\ chains' = chains]_vars

\* C9 witness: a call returned the loaded token under a configured buffer of 0,
\* a token the default buffer would reject
C9_Witness ==
  \E c \in Callers :
    /\ callers[c].pc = "done"
    /\ callers[c].path = "valid"
    /\ callers[c].result = Fulfilled(callers[c].token)
    /\ options.refreshBuffer = Num(0)
    /\ callers[c].token.expires_in * MsPerSecond <= DefaultExpirationBuffer
    /\ netCalls = 0

\* C10: when the token getValidToken() loaded is missing, or is invalid and has
\* no refresh token, the call rejects with AuthenticationError and no refresh
\* call is made
C10_NoTokenRejects ==
  [][\A c \in Callers :
       ( /\ callers[c].pc = "getToken"
         /\ callers'[c].pc # "getToken"
         /\ \/ callers[c].token = Null
            \/ /\ ~ValidUnderConfiguredBuffer(callers[c].token)
               /\ callers[c].token.refresh_token = 0 )
       => /\ callers'[c].pc = "done"
          /\ callers'[c].result.status = "rejected"
          /\ callers'[c].result.value.name = "AuthenticationError"
          /\ netCalls' = netCalls
          /\ chains' = chains]_vars

\* C10 witness: a call that loaded an invalid token without a refresh token was
\* rejected with AuthenticationError, and no refresh call was made
C10_Witness ==
  \E c \in Callers :
    /\ callers[c].pc = "done"
    /\ callers[c].path = "notoken"
    /\ callers[c].token # Null
    /\ callers[c].token.refresh_token = 0
    /\ callers[c].result = Rejected(NoTokenError)
    /\ netCalls = 0

\* C11: isTokenValid(token, buffer) is false for a null token; for a token with
\* both expiry fields it is false when now >= obtained_at + expires_in*1000 -
\* buffer (the buffer defaulting to 60000) and true otherwise, false exactly at
\* the buffer edge
C11_ValidBeforeBufferEdge ==
  [][( /\ invoked.op = "isTokenValid"
       /\ returned = NotReturned
       /\ returned' # NotReturned )
     => LET token == invoked.token
            buffer == IF invoked.expirationBuffer = Undefined
                      THEN 60000 ELSE Val(invoked.expirationBuffer)
        IN  /\ token = Null => returned'.value = FALSE
            /\ (token # Null /\ token.expires_in # 0 /\ token.obtained_at # 0) =>
                 returned'.value =
                   ~(now >= token.obtained_at + token.expires_in * 1000 - buffer)]_vars

\* C11 witness: a token checked exactly at its buffer edge was reported invalid
C11_Witness ==
  /\ invoked.op = "isTokenValid"
  /\ invoked.token # Null
  /\ invoked.token.expires_in # 0
  /\ invoked.expirationBuffer # Undefined
  /\ now = invoked.token.obtained_at + invoked.token.expires_in * MsPerSecond
             - Val(invoked.expirationBuffer)
  /\ returned = Returned(FALSE)

\* C12: a successful authenticate() or refreshToken() stamps its token with
\* obtained_at = the current time and saves it to the token store, and only
\* then returns that token; the store still holds it at the return unless a
\* later token was issued in between
C12_StampedAndSavedBeforeReturn ==
  [][/\ ( login.pc = "post" /\ login'.pc = "saveToken" )
        => /\ login'.token.obtained_at = now
           /\ login'.token.expires_in = ServerExpiresIn
           /\ store' = login'.token
     /\ ( login.pc # "done" /\ login'.pc = "done" /\ login'.result.status = "fulfilled" )
        => /\ login.pc = "saveToken"
           /\ login'.result.value = login.token
           /\ login.token.access_token = issued => store' = login.token
     /\ \A id \in RefreshIds :
          /\ ( chains[id].pc = "post" /\ chains'[id].pc = "saveToken" )
             => /\ chains'[id].token.obtained_at = now
                /\ chains'[id].token.expires_in = ServerExpiresIn
                /\ store' = chains'[id].token
          /\ ( promises[id].status # "fulfilled" /\ promises'[id].status = "fulfilled" )
             => /\ chains[id].pc = "saveToken"
                /\ promises'[id].value = chains[id].token
                /\ chains[id].token.access_token = issued => store' = chains[id].token]_vars

\* C12 witness: after the clock advanced, login() and a refresh both returned a
\* token stamped with the later time, and the store holds the refreshed one
C12_Witness ==
  /\ login.pc = "done"
  /\ login.result.status = "fulfilled"
  /\ login.result.value.obtained_at = T0 + TickMs
  /\ \E id \in RefreshIds :
       /\ promises[id].status = "fulfilled"
       /\ promises[id].value.obtained_at = T0 + TickMs
       /\ store = promises[id].value

\* C13: a failed call to the auth endpoint is thrown as NetworkError when no
\* response was received, as AuthenticationError when the response status is
\* 400 or 401, as ServerError for any other response status, and as
\* AuthenticationError when the failure is not a transport error
C13_AuthErrorMapping ==
  invoked.op = "handleAuthError" /\ returned # NotReturned
  => /\ returned.status = "rejected"
     /\ returned.value.name =
          CASE invoked.error = "noresp" -> "NetworkError"
            [] invoked.error = "other" -> "AuthenticationError"
            [] invoked.error \in {"r400", "r401"} -> "AuthenticationError"
            [] OTHER -> "ServerError"

\* C13 witness: a 403 response, an error status that is neither 400 nor 401 nor
\* a server-side one, was thrown as ServerError
C13_Witness ==
  /\ invoked.op = "handleAuthError"
  /\ invoked.error = "r403"
  /\ returned.status = "rejected"
  /\ returned.value.name = "ServerError"
  /\ returned.value.statusCode = Num(403)

C15_LoginKeepsSelection ==
  [][login' # login
     => /\ currentOrganizationId # 0 => currentOrganizationId' = currentOrganizationId
        /\ currentOrganizationId = 0 =>
             currentOrganizationId' =
               IF login'.pc = "done" /\ login'.result.status = "fulfilled"
               THEN cfg.defaultOrgId ELSE 0]_vars

\* C15 witness: after a logout() left no organization selected, login()
\* selected the configured default
C15_Witness ==
  /\ logout = "done"
  /\ login.pc = "done"
  /\ login.result.status = "fulfilled"
  /\ cfg.defaultOrgId # 0
  /\ cfg.defaultOrgId \notin OrgIds
  /\ currentOrganizationId = cfg.defaultOrgId

\* C16: no step of getSessionState() or isAuthenticated() starts a refresh or
\* changes the token store or the selected organization; the state returned
\* carries the token that was read, and isAuthenticated is true exactly when
\* that token is valid under the default buffer, so false for a stale token
C16_SessionStateReadOnly ==
  [][sessionState' # sessionState
     => /\ store' = store
        /\ currentOrganizationId' = currentOrganizationId
        /\ netCalls' = netCalls
        /\ chains' = chains
        /\ promises' = promises
        /\ refreshing' = refreshing
        /\ refreshPromise' = refreshPromise
        /\ sessionState'.pc = "done" =>
             LET token == sessionState.token
                 fresh == /\ token # Null
                          /\ token.expires_in # 0
                          /\ token.obtained_at # 0
                          /\ now < token.obtained_at + token.expires_in * 1000 - 60000
             IN  IF sessionState.op = "getSessionState"
                 THEN /\ sessionState'.result.value.token = token
                      /\ sessionState'.result.value.isAuthenticated = fresh
                 ELSE sessionState'.result.value = fresh]_vars

\* C16 witness: getSessionState() returned a stored token that has expired,
\* with isAuthenticated = false, while that token was being refreshed
C16_Witness ==
  /\ sessionState.pc = "done"
  /\ sessionState.op = "getSessionState"
  /\ sessionState.result.value.isAuthenticated = FALSE
  /\ sessionState.result.value.token # Null
  /\ sessionState.result.value.token = store
  /\ now >= store.obtained_at + store.expires_in * MsPerSecond
  /\ store.expires_in # 0
  /\ \E id \in RefreshIds : chains[id].pc = "post"

\* C17: when getValidToken() rejects with an AuthenticationError, getAuthToken()
\* rejects with another AuthenticationError whose originalError is that error;
\* an error of any other kind is passed on as it is, and so is a token
C17_AuthErrorWrapped ==
  invoked.op = "getAuthToken" /\ returned # NotReturned
  => LET r == invoked.outcome
     IN  IF r.status = "rejected" /\ r.value.name = "AuthenticationError"
         THEN /\ returned.status = "rejected"
              /\ returned.value.name = "AuthenticationError"
              /\ returned.value.originalError = r.value
              /\ returned.value # r.value
         ELSE returned = r

\* C17 witness: the AuthenticationError of a refresh answered 400 reached the
\* caller of getAuthToken() inside a new AuthenticationError
C17_Witness ==
  /\ invoked.op = "getAuthToken"
  /\ returned.status = "rejected"
  /\ returned.value.name = "AuthenticationError"
  /\ returned.value.originalError.name = "AuthenticationError"
  /\ returned.value.originalError.statusCode = Num(400)
  /\ returned.value.originalError.originalError.raw = "r400"

\* C18: whatever HttpClient.request() throws is a MinimaxError or one of its
\* subclasses, for every shape of the failure
C18_AlwaysMinimaxError ==
  (request.pc = "done" /\ request.result.status = "rejected")
  => request.result.value.name \in MinimaxErrorNames

\* C19: a transport failure without a response is classified as NetworkError
C19_NoResponseIsNetworkError ==
  (request.raw # Null /\ request.raw = AxiosError(NoResponse))
  => request.error.name = "NetworkError"

\* C20: a request whose transport call fails without a response is thrown to
\* the caller only after it has been re-issued maxRetries times
C20_NoResponseRetried ==
  ( /\ request.pc = "done"
    /\ request.result.status = "rejected"
    /\ request.raw = AxiosError(NoResponse) )
  => request.retryCount = Val(request.config.maxRetries)

\* C21: with a DefaultRetryStrategy, execute() calls the operation at most
\* maxRetries + 1 times (4 times with the default configuration), also when a
\* retryCondition always answers true; no retry follows the last of these
\* calls, and what execute() throws is the error the operation threw last
C21_AttemptsCapped ==
  /\ execute.invocations <= Val(execute.config.maxRetries) + 1
  /\ (execute.config = RetryConfig(EmptyObject) => execute.invocations <= 4)
  /\ (execute.pc = "delay" => execute.invocations <= Val(execute.config.maxRetries))
  /\ (execute.pc = "done" /\ execute.result.status = "rejected"
        => execute.result.value = execute.error)

\* a retryCondition that always answers true, the default cap: the fourth call
\* of the operation failed and its error was thrown
C21_Witness ==
  /\ execute.config.retryCondition = {"always"}
  /\ execute.config.maxRetries = Num(DefaultMaxRetries)
  /\ execute.invocations = 4
  /\ execute.pc = "done"
  /\ execute.result = Rejected(ApiError("ValidationError", Plain, Num(400), Null))

\* the delays slept between the attempts of a request grow from one to the next
StrictlyIncreasing(waits) == \A i \in 1..(Len(waits) - 1) : waits[i] < waits[i + 1]

\* C22: a request answered 503 k times (k <= maxRetries) and then 200 returns
\* the payload after exactly k retries, k + 1 transport calls, with growing
\* delays: it is not thrown after any of these 503, and once the 200 arrives
\* the retries number k (every attempt having obtained its token)
C22_UnavailableThenPayload ==
  /\ ( /\ request.pc = "done"
       /\ request.result.status = "rejected"
       /\ IsUnavailable(request.raw)
       /\ request.unavailable = request.calls
       /\ (request.options.authenticate => request.authCalls = request.calls) )
     => request.unavailable > Val(request.config.maxRetries)
  /\ ( /\ request.pc = "done"
       /\ request.result.status = "fulfilled"
       /\ request.unavailable = request.calls - 1
       /\ (request.options.authenticate => request.authCalls = request.calls) )
     => /\ request.retryCount = request.unavailable
        /\ request.result.value \in Payloads
        /\ StrictlyIncreasing(request.waits)

\* C23: a request whose attempt fails with a ConcurrencyError, ValidationError,
\* NotFoundError or AuthenticationError is not issued again: the error is
\* thrown to the caller at once, after the one transport call when it is the
\* first attempt that failed
C23_NeverRetriedKinds ==
  ( /\ request.error # Null
    /\ request.error.name \in {"ConcurrencyError", "ValidationError",
                               "NotFoundError", "AuthenticationError"} )
  => /\ request.pc = "done"
     /\ request.result = Rejected(request.error)
     /\ (request.retryCount = 0 => request.calls <= 1)
     /\ (request.retryCount = 0 /\ "kind" \in DOMAIN request.raw => request.calls = 1)

\* a 409 was classified as ConcurrencyError and thrown after one transport call
C23_Witness ==
  /\ request.pc = "done"
  /\ request.error # Null
  /\ request.error.name = "ConcurrencyError"
  /\ request.raw.response # NoResponse
  /\ request.raw.response.status = 409
  /\ request.calls = 1
  /\ request.result = Rejected(request.error)

\* a transport failure that carries a response
HasResponse(raw) ==
  /\ raw # Null
  /\ "kind" \in DOMAIN raw
  /\ raw.kind = "axios"
  /\ raw.response # NoResponse

\* C24: a response with a status of 500 or more is classified as ServerError,
\* whatever its body and the text of its message, and so it is retried until
\* the cap is reached
C24_ServerErrorFrom500 ==
  (HasResponse(request.raw) /\ request.raw.response.status >= 500)
  => /\ request.error.name = "ServerError"
     /\ (request.pc = "done" => request.retryCount = Val(request.config.maxRetries))

\* C25: a 409 response is classified as ConcurrencyError whether or not its
\* message holds a version; the error carries the version that follows
\* "RowVersion:" in the message, and undefined when there is none
C25_ConflictIsConcurrencyError ==
  (HasResponse(request.raw) /\ request.raw.response.status = 409)
  => /\ request.error.name = "ConcurrencyError"
     /\ request.error.currentRowVersion =
          ( IF request.raw.response.data.message \in {NoMessage, NonString}
            THEN Undefined
            ELSE request.raw.response.data.message.rowVersion )

\* C26: an error that is typed already comes out of the error chain of the
\* HttpClient as the very same error
C26_ClassificationIdempotent ==
  (invoked.op = "processError" /\ returned # NotReturned)
  => returned = Returned(invoked.thrown)

\* C27: every transport call of an authenticated request carries the bearer
\* token that getAuthToken() returned for this attempt and the organization of
\* the call, else that of the session, else no organization header; a request
\* with authenticate = false never calls getAuthToken() and gets no
\* Authorization header
C27_HeadersOfTransportCall ==
  [][ /\ request'.calls # request.calls =>
           IF request'.options.authenticate
           THEN /\ request.pc = "getAuthToken"
                /\ request.auth.status = "fulfilled"
                /\ request'.authCalls > request.calls
                /\ request'.headers["Authorization"] = Bearer(request.auth.value)
                /\ IF request'.options.orgId # 0
                   THEN request'.headers["X-Organization-Id"] = request'.options.orgId
                   ELSE IF currentOrganizationId # 0
                   THEN request'.headers["X-Organization-Id"] = currentOrganizationId
                   ELSE "X-Organization-Id" \notin DOMAIN request'.headers
                /\ \A h \in DOMAIN request'.options.headers :
                     request'.headers[h] = request'.options.headers[h]
           ELSE request'.headers = request'.options.headers
      /\ ~request'.options.authenticate =>
           /\ request'.authCalls = 0
           /\ "Authorization" \notin DOMAIN request'.headers ]_vars

\* a retried authenticated call without an organization of its own carries the
\* organization of the session
C27_Witness ==
  /\ request.pc = "transport"
  /\ request.options.authenticate
  /\ request.calls = 2
  /\ request.options.orgId = 0
  /\ currentOrganizationId # 0
  /\ "Authorization" \in DOMAIN request.headers
  /\ request.headers["X-Organization-Id"] = currentOrganizationId

\* C28: addRowVersion(resource, data) returns data as it is when data has a
\* RowVersion; otherwise it returns data with the RowVersion of the resource
\* added and every other field as it was (a resource without a RowVersion has
\* none to add: data is returned as it is)
C28_AddRowVersion ==
  (invoked.op = "addRowVersion" /\ returned # NotReturned)
  => LET data == invoked.data
         resource == invoked.resource
         out == returned.value
     IN  IF Truthy(data, "RowVersion") \/ ~Truthy(resource, "RowVersion")
         THEN out = data
         ELSE /\ DOMAIN out = DOMAIN data \cup {"RowVersion"}
              /\ out.RowVersion = resource.RowVersion
              /\ \A k \in DOMAIN data \ {"RowVersion"} : out[k] = data[k]

\* data with a Name and no RowVersion comes back with the version of the resource
C28_Witness ==
  /\ invoked.op = "addRowVersion"
  /\ returned # NotReturned
  /\ DOMAIN invoked.data = {"Name"}
  /\ returned.value = [Name |-> invoked.data.Name, RowVersion |-> 8]

\* C29: the request interceptor puts metadata.resource.RowVersion into the body
\* exactly when the method is PUT, PATCH or POST, there is a body without a
\* RowVersion and the metadata has a resource with one; every other config,
\* GET and DELETE among them, comes back unchanged
C29_InterceptorInjects ==
  (invoked.op = "requestInterceptor" /\ returned # NotReturned)
  => LET config == invoked.config
         out == returned.value
         injects ==
           /\ ToLowerCase(config.method) \in {"put", "patch", "post"}
           /\ config.data # NoData
           /\ ~Truthy(config.data, "RowVersion")
           /\ config.metadata # NoMetadata
           /\ "resource" \in DOMAIN config.metadata
           /\ Truthy(config.metadata.resource, "RowVersion")
     IN  IF injects
         THEN /\ out.method = config.method
              /\ out.metadata = config.metadata
              /\ DOMAIN out.data = DOMAIN config.data \cup {"RowVersion"}
              /\ out.data.RowVersion = config.metadata.resource.RowVersion
              /\ \A k \in DOMAIN config.data \ {"RowVersion"} :
                   out.data[k] = config.data[k]
         ELSE out = config

\* a PATCH whose body has an Id and no RowVersion leaves with the version of
\* the resource in its metadata
C29_Witness ==
  /\ invoked.op = "requestInterceptor"
  /\ returned # NotReturned
  /\ invoked.config.method = "PATCH"
  /\ invoked.config.data # NoData
  /\ DOMAIN invoked.config.data = {"Id"}
  /\ returned.value.data = [Id |-> 7, RowVersion |-> 8]

\* the value that comes out when the functions of entries are called one after
\* the other, each with what the one before it returned
RECURSIVE Composed(_, _)
Composed(entries, value) ==
  IF entries = <<>> THEN value
  ELSE Intercept(entries[Len(entries)].fn,
                 Composed(SubSeq(entries, 1, Len(entries) - 1), value))

\* C30: the interceptors of a list are called in the order of their
\* registration, each with the value the one before it returned, and the
\* built-in RowVersion interceptor of an HttpClient is called before any
\* request interceptor a user registered
C30_RegistrationOrder ==
  /\ \A kind \in InterceptorKinds :
       /\ \A i, j \in 1..Len(interceptors[kind]) :
            i < j => interceptors[kind][i].id < interceptors[kind][j].id
       /\ \A i \in 1..Len(interceptors[kind]) :
            interceptors[kind][i].fn = BuiltIn => i = 1 /\ kind = "requestInterceptors"
  /\ interceptors.run.pc # "idle" =>
       LET run == interceptors.run
       IN  /\ \A i, j \in 1..Len(run.applied) :
                i < j => run.applied[i].id < run.applied[j].id
           /\ \A i \in 1..Len(run.applied) : run.applied[i].fn = BuiltIn => i = 1
           /\ run.value = Composed(run.applied,
                                   [subject |-> ChainSubject(run.kind), marks |-> <<>>])
           /\ (run.pc = "returned" /\ run.applied = interceptors[run.kind]) =>
                 run.value.marks =
                   [i \in 1..Len(run.value.marks) |->
                      interceptors[run.kind][i + Len(run.applied) - Len(run.value.marks)].fn]

\* a request went through the built-in interceptor, which put the RowVersion
\* in, and then through two interceptors of the user in the order they were
\* registered in
C30_Witness ==
  /\ interceptors.run.pc = "returned"
  /\ interceptors.run.kind = "requestInterceptors"
  /\ Len(interceptors.run.applied) = 3
  /\ interceptors.run.applied[1].fn = BuiltIn
  /\ interceptors.run.value.marks = <<"u2", "u1">>
  /\ interceptors.run.value.subject.data.RowVersion = 8

\* C31: the in-flight flag is set exactly while the coordinator holds a refresh
\* promise, and it holds one only until the refreshToken() call that made it
\* has seen it settle: that call clears both, and a getValidToken() that loads
\* a stale token after that starts a refresh of its own, with a new pending
\* promise and a network call, instead of being handed a settled one
C31_ResetAfterSettle ==
  /\ [](refreshing <=> refreshPromise # 0)
  /\ [](refreshPromise # 0 =>
          \E c \in Callers : /\ callers[c].pc = "awaitRefresh"
                             /\ callers[c].promise = refreshPromise)
  /\ [][ \A c \in Callers :
          /\ (callers[c].pc = "awaitRefresh" /\ callers'[c].pc = "done") =>
                /\ promises[callers[c].promise].status \in {"fulfilled", "rejected"}
                /\ ~refreshing'
                /\ refreshPromise' = 0
          /\ ( /\ callers[c].pc = "getToken"
               /\ callers'[c].pc # "getToken"
               /\ refreshPromise = 0
               /\ ~IsTokenValid(callers[c].token, options.refreshBuffer)
               /\ HasRefreshToken(callers[c].token) ) =>
                /\ callers'[c].pc = "awaitRefresh"
                /\ promises[callers'[c].promise].status = "none"
                /\ promises'[callers'[c].promise] = Pending
                /\ refreshPromise' = callers'[c].promise
                /\ refreshing'
                /\ netCalls' = netCalls + 1 ]_vars

\* after a refresh has failed for good and its caller returned, a second call
\* found the token stale and is waiting for a refresh of its own
C31_Witness ==
  /\ callers[1].pc = "done"
  /\ callers[1].path = "refresh"
  /\ promises[1].status = "rejected"
  /\ callers[2].pc = "awaitRefresh"
  /\ callers[2].promise = 2
  /\ promises[2] = Pending
  /\ refreshing
  /\ refreshPromise = 2

\* the attempts of the request started so far
Attempts(r) == IF r.options.authenticate THEN r.authCalls ELSE r.calls

\* C32: the attempts of one request follow one another: attempt k + 1 starts
\* only when k attempts have failed and k waits have been slept, and no
\* transport call is issued while another is outstanding; every attempt of an
\* authenticated request, each retry too, begins with a getAuthToken() call of
\* its own and resolves the organization again when that call has settled
C32_AttemptsInSequence ==
  /\ []( /\ Len(request.waits) = request.retryCount
         /\ request.pc \in {"getAuthToken", "transport"} =>
               Attempts(request) = request.retryCount + 1
         /\ request.pc = "retryDelay" =>
               /\ Attempts(request) = request.retryCount
               /\ request.error # Null )
  /\ [][ /\ request'.calls # request.calls =>
               /\ request'.calls = request.calls + 1
               /\ request.pc # "transport"
               /\ request'.options.authenticate =>
                     /\ request.pc = "getAuthToken"
                     /\ request.auth.status = "fulfilled"
                     /\ request'.headers["Authorization"] = Bearer(request.auth.value)
                     /\ LET organizationId ==
                              IF request.options.orgId # 0
                              THEN request.options.orgId ELSE currentOrganizationId
                        IN  IF organizationId # 0
                            THEN request'.headers["X-Organization-Id"] = organizationId
                            ELSE "X-Organization-Id" \notin DOMAIN request'.headers
         /\ (request.pc = "retryDelay" /\ request'.pc # "retryDelay") =>
               /\ Attempts(request') = Attempts(request) + 1
               /\ request'.options.authenticate =>
                     /\ request'.pc = "getAuthToken"
                     /\ request'.auth = Pending
                     /\ request'.authCalls = request.authCalls + 1
                     /\ request'.calls = request.calls ]_vars

\* the second attempt of an authenticated request has asked for a token again
\* and sent its call with the organization the session has now
C32_Witness ==
  /\ request.options.authenticate
  /\ request.pc = "transport"
  /\ request.retryCount = 1
  /\ request.authCalls = 2
  /\ request.calls = 2
  /\ request.options.orgId = 0
  /\ cfg.defaultOrgId = 1
  /\ request.headers["X-Organization-Id"] = 2

\* C33: without jitter, the wait before the k-th retry of execute() is
\* min(retryDelay * backoffFactor^(k-1), maxRetryDelay), the base delay for the
\* first retry
C33_BackoffFromBase ==
  (execute.config.jitter = Num(0) /\ Val(execute.config.useExponentialBackoff))
  => \A k \in 1..Len(execute.waits) :
       execute.waits[k] =
         Min(Val(execute.config.retryDelay)
               * Pow(Val(execute.config.backoffFactor), k - 1),
             Val(execute.config.maxRetryDelay))

\* C34: the delay getRetryDelay returns is never above maxRetryDelay, whatever
\* the retry count and the error, a RateLimitError with a retryAfter included
C34_DelayCapped ==
  (invoked.op = "getRetryDelay" /\ returned # NotReturned)
  => returned.value <= Val(invoked.strategy.maxRetryDelay)

\* the list without the entry of registration id
Without(list, id) == SelectSeq(list, LAMBDA entry : entry.id # id)

\* C35: a call of the remove function of a registration takes exactly that
\* registration out of its list and leaves every other one, another
\* registration of the same function too, where it was; a later call of the
\* same remove function changes nothing
C35_RemovesItsRegistration ==
  [][ \A id \in 1..MaxInterceptors :
        interceptors'.calling = id =>
          \A kind \in InterceptorKinds :
            interceptors'[kind] = Without(interceptors[kind], id) ]_vars

\* C36: every refresh call the coordinator issues, a first attempt or a
\* retry, carries the refresh_token of the token the store holds at that
\* moment
C36_RefreshTokenIsCurrent ==
  [][ netCalls' # netCalls =>
        \E id \in RefreshIds :
          /\ chains'[id] # chains[id]
          /\ chains'[id].pc = "post"
          /\ store # Null
          /\ chains'[id].refreshToken = store.refresh_token ]_vars

\* C37: once login() has saved its token, the store keeps that token until a
\* logout() or a refresh that was not yet running when login() was called; a
\* refresh that was in flight at that moment does not write over it
C37_LoginTokenStays ==
  [][ ( /\ login.pc \in {"saveToken", "done"}
        /\ login.token # Null
        /\ store = login.token
        /\ store' # store )
      => \/ logout' # logout
         \/ \E id \in RefreshIds \ login.inflight :
              chains[id].pc = "post" /\ chains'[id].pc = "saveToken" ]_vars

\* C38: isAuthenticated(), and the isAuthenticated of getSessionState(), is
\* true exactly when the token it read is valid under the refreshBuffer of the
\* session, the decision by which getAuthToken() returns a stored token
\* without a refresh
C38_SameValidityDecision ==
  [][ (sessionState.pc = "getToken" /\ sessionState'.pc = "done")
      => LET isAuthenticated ==
               IF sessionState.op = "getSessionState"
               THEN sessionState'.result.value.isAuthenticated
               ELSE sessionState'.result.value
         IN  isAuthenticated = IsTokenValid(sessionState.token, GetValidTokenBuffer) ]_vars

\* C39: a step in which login() is rejected, a refresh call fails, or
\* getAuthToken() is rejected writes neither the token store nor the selected
\* organization, and a rejected login() never built a token
C39_FailureLeavesSession ==
  [][ ( \/ /\ login.pc = "post"
            /\ login'.pc = "done"
            /\ login'.result.status = "rejected"
        \/ \E id \in RefreshIds :
             chains[id].pc = "post" /\ chains'[id].pc \in {"retryDelay", "settled"}
        \/ \E c \in DOMAIN callers :
             /\ callers[c].result.status # "rejected"
             /\ callers'[c].result.status = "rejected" )
      => /\ store' = store
         /\ currentOrganizationId' = currentOrganizationId
         /\ login'.result.status = "rejected" => login'.token = Null ]_vars

\* login() was rejected and a refresh failed while a token is stored and an
\* organization is selected
C39_Witness ==
  /\ login.pc = "done"
  /\ login.result.status = "rejected"
  /\ store # Null
  /\ currentOrganizationId # 0
  /\ \E c \in DOMAIN callers :
       callers[c].path = "refresh" /\ callers[c].result.status = "rejected"

\* C40: a request() of the exported MinimaxClient authenticates again after a
\* 401 at most once and makes at most two transport calls, and the second call
\* has the method, url, data, params and Organization-Id header of the first
C40_ReissuedOnceSameRequest ==
  /\ client.authenticated <= 1
  /\ Len(client.sent) <= 2
  /\ Len(client.sent) = 2
     => LET first == client.sent[1]
            second == client.sent[2]
        IN  /\ second.method = first.method
            /\ second.url = first.url
            /\ second.data = first.data
            /\ second.params = first.params
            /\ "Organization-Id" \in DOMAIN second.headers
                 <=> "Organization-Id" \in DOMAIN first.headers
            /\ "Organization-Id" \in DOMAIN first.headers
                 => second.headers["Organization-Id"] = first.headers["Organization-Id"]

====
